---- MODULE Spec2Model ----
(***************************************************************************)
(* A model of robin (ziord/robin): the markup parser that builds the node  *)
(* tree, the XPath evaluator that queries it, and the markup lexer.        *)
(*                                                                         *)
(* The parser is modelled at the level of the constructs it recognises:    *)
(* one action per construct (start tag, empty tag, script element, end     *)
(* tag, text, comment, processing instruction, declaration, end of file).  *)
(* Nodes are numbered in creation order; node 1 is the root node.          *)
(***************************************************************************)
EXTENDS Integers, Sequences, FiniteSets, TLC

\* ------------------------------------------------------------------------
\* Bounds
\* ------------------------------------------------------------------------
\* nodes (elements, attributes, text, comments, PIs) created in one parse
MaxNodes == 3
\* attributes written on one start tag
MaxAttrs == 1

\* element names written in the input
ElemNames == {"a", "b"}
\* the member of the HTML void set written in the input
HtmlVoidElementNames == {"br"}
scriptTag == "script"

\* JavaScript NaN / undefined as a value of the numeric field `index`:
\* arithmetic on it yields NaN again, every comparison with it is false and
\* an array read at it yields undefined.
NaN == -2
\* the position every node class starts with (`private pos = -1`)
DefaultPos == -1
\* the node number standing for null / undefined
Null == 0

VARIABLES
    nodes,                \* the node table: Seq of node records
    stack,                \* XmlParser.stack (parent stack), bottom first
    pos,                  \* XmlParser.pos, the next document position
    mode,                 \* "XML" or "HTML"
    pc,                   \* where parseDocument() stands
    rootElement,          \* RootNode.rootElement (Null when absent)
    isRootElementClosed,  \* XmlParser.isRootElementClosed
    dataStack,            \* XPath.dataStack of the XPath object on the document
    ctxStack,             \* XPath.ctxStack of that object
    lastQuery,            \* the query of its last query() call
    lastOut,              \* what that call returned or threw
    nq,                   \* the number of query() calls made on it
    source,               \* Lexer.source, as a sequence of characters (<<>>: no lexer yet)
    currentIndex,         \* Lexer.currentIndex
    startIndex,           \* Lexer.startIndex
    line,                 \* Lexer.line
    column,               \* Lexer.column
    atError,              \* Lexer.atError
    errors,               \* Lexer.errors
    vFlag,                \* Lexer.vFlag
    token,                \* the token the last getToken() call returned
    lexing,               \* the loop a running getToken() call is inside, and where in it
    config,               \* XmlParser.config of a parser that reads qualified names
    phase,                \* where that parser stands in parse()
    currentScope,         \* XmlParser.currentScope: the tables, outermost first
    warnings,             \* XmlParser.warnings
    uniqueNames,          \* XmlParser.uniqueNames
    namespacedAttributes, \* XmlParser.namespacedAttributes
    elems,                \* the ElementNodes that parser has made, in document order
    openElems,            \* the elements whose parseElement() call is running, outermost first
    isWellFormed,         \* RootNode.isWellFormed of its root
    dom                   \* the DOM calls made on the parsed tree: how many, the last one,
                          \* and whether a node that was attached has been inserted

parserVars == <<nodes, stack, pos, mode, pc, rootElement, isRootElementClosed>>
xpathVars == <<dataStack, ctxStack, lastQuery, lastOut, nq>>
domVars == <<dom>>
lexerVars ==
    <<source, currentIndex, startIndex, line, column, atError, errors, vFlag, token, lexing>>

\* ------------------------------------------------------------------------
\* Nodes
\* ------------------------------------------------------------------------
NewNode(kind, name, parent, index, position) ==
    [kind |-> kind, name |-> name, parent |-> parent, index |-> index,
     pos |-> position, children |-> <<>>, attributes |-> <<>>]

isRoot(n) == nodes[n].kind = "root"
isElement(n) == nodes[n].kind = "element"
isAttribute(n) == nodes[n].kind = "attribute"
isNamespace(n) == nodes[n].kind = "namespace"
isText(n) == nodes[n].kind = "text"
isComment(n) == nodes[n].kind = "comment"
isPI(n) == nodes[n].kind = "pi"
isParent(n) == isRoot(n) \/ isElement(n)

Top == stack[Len(stack)]
Pop == SubSeq(stack, 1, Len(stack) - 1)
Room(k) == Len(nodes) - 1 + k <= MaxNodes

\* setParent: node.index = parent.children.push(node) - 1; node.parent = parent
setParent(tbl, kind, name, position) ==
    LET id == Len(tbl) + 1
        p == Top
    IN [Append(tbl, NewNode(kind, name, p, Len(tbl[p].children), position))
            EXCEPT ![p].children = Append(@, id)]

\* parseAttribute, once per attribute of the start tag: the attribute gets
\* its parent and the next position and is stored in the element's map
RECURSIVE parseAttributes(_, _, _, _)
parseAttributes(tbl, elem, k, position) ==
    IF k = 0 THEN tbl
    ELSE LET id == Len(tbl) + 1
             name == IF Len(tbl[elem].attributes) = 0 THEN "id" ELSE "k"
             tbl2 == [Append(tbl, NewNode("attribute", name, elem, NaN, position))
                          EXCEPT ![elem].attributes = Append(@, id)]
         IN parseAttributes(tbl2, elem, k - 1, position + 1)

isVoidElement(name) == name \in HtmlVoidElementNames

InContent == pc \in {"start", "prolog", "misc"}
\* Every construct is read by miscS(), which leaves the DOCTYPE readable,
\* but for an XML document that starts with a tag: parseXmlDecl() reads its
\* "<" and parseDocument() parses it itself, after the prolog
AfterItem == IF pc = "start" THEN "prolog" ELSE pc
AfterTag == IF pc = "start" THEN (IF mode = "XML" THEN "misc" ELSE "prolog") ELSE pc

\* the end of parseElement: the root element is closed once, a later
\* top-level element is an error
ElementDone(e, re) ==
    IF re = e
    THEN /\ isRootElementClosed' = TRUE
         /\ pc' = AfterTag
    ELSE /\ isRootElementClosed' = isRootElementClosed
         /\ pc' = IF isRootElementClosed THEN "error" ELSE AfterTag

nameVars ==
    <<config, phase, currentScope, warnings, uniqueNames, namespacedAttributes, elems,
      openElems, isWellFormed>>

\* the defaults of the XmlParser constructor
DefaultConfig ==
    [showWarnings |-> TRUE, allowMissingNamespaces |-> FALSE,
     allowDefaultNamespaceBindings |-> TRUE, ensureUniqueNamespacedAttributes |-> TRUE]

Init ==
    /\ mode \in {"XML", "HTML"}
    /\ nodes = <<NewNode("root", "", Null, NaN, DefaultPos)>>
    /\ stack = <<1>>
    /\ pos = 0
    /\ pc = "start"
    /\ rootElement = Null
    /\ isRootElementClosed = FALSE
    /\ dataStack = <<>>
    /\ ctxStack = <<>>
    /\ lastQuery = [t |-> "none"]
    /\ lastOut = [err |-> "", cType |-> "", value |-> 0]
    /\ nq = 0
    /\ source = <<>>
    /\ currentIndex = 0
    /\ startIndex = 0
    /\ line = 1
    /\ column = 1
    /\ atError = FALSE
    /\ errors = <<>>
    /\ vFlag = ""
    /\ token = [type |-> "none"]
    /\ lexing = [loop |-> "", at |-> ""]
    /\ config = DefaultConfig
    /\ phase = "new"
    /\ currentScope = << <<>> >>
    /\ warnings = 0
    /\ uniqueNames = {}
    /\ namespacedAttributes = <<>>
    /\ elems = <<>>
    /\ openElems = <<>>
    /\ isWellFormed = FALSE
    /\ dom = [calls |-> 0, attached |-> FALSE, last |-> [op |-> "none"]]

\* ------------------------------------------------------------------------
\* Parser actions
\* ------------------------------------------------------------------------
\* <?xml ...?> at the very start: the declaration and each of its
\* attributes take a position; the declaration is not a child of the root
parseXmlDecl(nattr) ==
    /\ pc = "start"
    /\ mode = "XML"
    /\ pos' = pos + 1 + nattr
    /\ pc' = "prolog"
    /\ UNCHANGED <<nodes, stack, mode, rootElement, isRootElementClosed>>
    /\ UNCHANGED <<xpathVars, domVars, lexerVars, nameVars>>

\* <!DOCTYPE ...>: takes a position, is not a child of the root; a second
\* one, or one after parseDocument() read the element, fails consume(Eof)
parseDoctype ==
    /\ InContent
    /\ IF Len(stack) = 1 /\ pc \in {"start", "prolog"}
       THEN /\ pos' = pos + 1
            /\ pc' = "misc"
       ELSE /\ pos' = pos
            /\ pc' = "error"
    /\ UNCHANGED <<nodes, stack, mode, rootElement, isRootElementClosed>>
    /\ UNCHANGED <<xpathVars, domVars, lexerVars, nameVars>>

\* <name attr...> : parseElement up to handleContent's push
parseElementOpen(name, nattr) ==
    /\ InContent
    /\ Room(1 + nattr)
    /\ mode = "HTML" => ~isVoidElement(name) /\ name # scriptTag
    /\ LET e == Len(nodes) + 1
       IN /\ nodes' = parseAttributes(setParent(nodes, "element", name, pos),
                                      e, nattr, pos + 1)
          /\ stack' = Append(stack, e)
          /\ rootElement' = IF rootElement = Null THEN e ELSE rootElement
    /\ pos' = pos + 1 + nattr
    /\ pc' = AfterTag
    /\ UNCHANGED <<mode, isRootElementClosed>>
    /\ UNCHANGED <<xpathVars, domVars, lexerVars, nameVars>>

\* <name attr.../> in both modes, and <name attr...> of an HTML void element
parseElementEmpty(name, nattr) ==
    /\ InContent
    /\ Room(1 + nattr)
    /\ LET e == Len(nodes) + 1
           re == IF rootElement = Null THEN e ELSE rootElement
       IN /\ nodes' = parseAttributes(setParent(nodes, "element", name, pos),
                                      e, nattr, pos + 1)
          /\ rootElement' = re
          /\ ElementDone(e, re)
    /\ pos' = pos + 1 + nattr
    /\ UNCHANGED <<stack, mode>>
    /\ UNCHANGED <<xpathVars, domVars, lexerVars, nameVars>>

\* HTML <script>body</script>: the body is scanned up to "</"; a body that
\* is not blank becomes a text child that is pushed onto the element's
\* children without setParent and without setPosition
parseScript(hasBody, closed) ==
    /\ InContent
    /\ mode = "HTML"
    /\ Room(IF hasBody /\ closed THEN 2 ELSE 1)
    /\ LET e == Len(nodes) + 1
           re == IF rootElement = Null THEN e ELSE rootElement
           tbl == setParent(nodes, "element", scriptTag, pos)
           child == [NewNode("text", "", e, NaN, DefaultPos) EXCEPT !.index = NaN]
       IN /\ rootElement' = re
          /\ IF closed
             THEN /\ nodes' = IF hasBody
                              THEN [Append(tbl, child) EXCEPT ![e].children = Append(@, e + 1)]
                              ELSE tbl
                  /\ ElementDone(e, re)
             ELSE /\ nodes' = tbl
                  /\ pc' = "error"
                  /\ UNCHANGED isRootElementClosed
    /\ pos' = pos + 1
    /\ UNCHANGED <<stack, mode>>
    /\ UNCHANGED <<xpathVars, domVars, lexerVars, nameVars>>

\* </name>: handleContent after the content loop
parseElementClose(name) ==
    /\ InContent
    /\ IF Len(stack) > 1 /\ nodes[Top].name = name
       THEN /\ stack' = Pop
            /\ ElementDone(Top, rootElement)
       ELSE /\ pc' = "error"
            /\ UNCHANGED <<stack, isRootElementClosed>>
    /\ UNCHANGED <<nodes, pos, mode, rootElement>>
    /\ UNCHANGED <<xpathVars, domVars, lexerVars, nameVars>>

\* parseText / parseComment / parsePI
parseMisc(kind) ==
    /\ InContent
    /\ Room(1)
    /\ nodes' = setParent(nodes, kind, "", pos)
    /\ pos' = pos + 1
    /\ pc' = AfterItem
    /\ UNCHANGED <<stack, mode, rootElement, isRootElementClosed>>
    /\ UNCHANGED <<xpathVars, domVars, lexerVars, nameVars>>

\* end of input: parseDocument's consume(Eof), or an error inside an element
parseEof ==
    /\ InContent
    /\ pc' = IF Len(stack) = 1 THEN "done" ELSE "error"
    /\ UNCHANGED <<nodes, stack, pos, mode, rootElement, isRootElementClosed>>
    /\ UNCHANGED <<xpathVars, domVars, lexerVars, nameVars>>

parse ==
    \/ \E k \in 0..MaxAttrs : parseXmlDecl(k)
    \/ parseDoctype
    \/ \E name \in ElemNames, k \in 0..MaxAttrs : parseElementOpen(name, k)
    \/ \E name \in ElemNames \cup HtmlVoidElementNames \cup {scriptTag}, k \in 0..MaxAttrs :
           /\ mode = "XML" => name \in ElemNames
           /\ parseElementEmpty(name, k)
    \/ \E hasBody \in BOOLEAN, closed \in BOOLEAN : parseScript(hasBody, closed)
    \/ \E name \in ElemNames : parseElementClose(name)
    \/ \E kind \in {"text", "comment", "pi"} : parseMisc(kind)
    \/ parseEof

\* ------------------------------------------------------------------------
\* XPath: node sets and the axis searches of PathState
\* ------------------------------------------------------------------------
\* A node set is a JavaScript Set of nodes: a sequence without repetition,
\* in insertion order.
SetAdd(s, n) == IF \E i \in 1..Len(s) : s[i] = n THEN s ELSE Append(s, n)
Members(s) == {s[i] : i \in 1..Len(s)}

\* JavaScript arithmetic and array reads on a possibly-NaN index
jsAdd(x, d) == IF x = NaN THEN NaN ELSE x + d
jsAt(arr, i) == IF i = NaN \/ i < 0 \/ i >= Len(arr) THEN Null ELSE arr[i + 1]

\* A node test is a record [type, testType, name].
KindTest(testType) == [type |-> "KindTest", testType |-> testType, name |-> ""]
NameTest(name) == [type |-> "NameTest", testType |-> "Name", name |-> name]
Wildcard == [type |-> "NameTest", testType |-> "Wildcard", name |-> ""]

isNameTestPassed(n, nt) ==
    IF nt.testType = "Wildcard" THEN TRUE ELSE nodes[n].name = nt.name

isKindTestPassed(n, kt) ==
    CASE kt.testType = "Text" -> isText(n)
      [] kt.testType = "Comment" -> isComment(n)
      [] kt.testType = "Node" -> TRUE
      [] kt.testType = "Pi" -> isPI(n)

\* the filter function every axis search is given: an element that passes
\* the name test, or any node that passes the kind test
nodeFilter(test, n) ==
    IF test.type = "NameTest"
    THEN isElement(n) /\ isNameTestPassed(n, test)
    ELSE isKindTestPassed(n, test)

RECURSIVE findDescendants(_, _, _)
RECURSIVE descendChildren(_, _, _, _)
findDescendants(node, test, nodeset) ==
    IF ~isParent(node) THEN nodeset
    ELSE descendChildren(nodes[node].children, 1, test, nodeset)

\* the for loop of findDescendants, from the i-th child on
descendChildren(children, i, test, nodeset) ==
    IF i > Len(children) THEN nodeset
    ELSE LET child == children[i]
             ns1 == IF nodeFilter(test, child) THEN SetAdd(nodeset, child) ELSE nodeset
             ns2 == IF isParent(child) THEN findDescendants(child, test, ns1) ELSE ns1
         IN descendChildren(children, i + 1, test, ns2)

RECURSIVE ancestorsFrom(_, _, _)
\* the while loop of findAncestors
ancestorsFrom(parent, test, nodeset) ==
    IF parent = Null THEN nodeset
    ELSE ancestorsFrom(nodes[parent].parent, test,
                       IF nodeFilter(test, parent) THEN SetAdd(nodeset, parent) ELSE nodeset)

findAncestors(node, test, nodeset) == ancestorsFrom(nodes[node].parent, test, nodeset)

RECURSIVE scanForward(_, _, _, _)
\* for (let i = index; i < children.length; i++) of findFollowing
scanForward(children, i, test, nodeset) ==
    IF i = NaN \/ i >= Len(children) THEN nodeset
    ELSE LET child == children[i + 1]
             ns1 == IF nodeFilter(test, child) THEN SetAdd(nodeset, child) ELSE nodeset
         IN scanForward(children, i + 1, test, findDescendants(child, test, ns1))

RECURSIVE followingLoop(_, _, _, _)
\* one round of the do/while of findFollowing
followingLoop(parent, index, test, nodeset) ==
    LET ns == scanForward(nodes[parent].children, index, test, nodeset)
        up == nodes[parent].parent
    IN IF up = Null THEN ns
       ELSE IF isRoot(up) THEN ns
       ELSE followingLoop(up, jsAdd(nodes[parent].index, 1), test, ns)

findFollowing(node, test, nodeset) ==
    LET parent == nodes[node].parent
        index == IF isAttribute(node) \/ isNamespace(node) THEN 0
                 ELSE jsAdd(nodes[node].index, 1)
    IN IF parent = Null THEN nodeset ELSE followingLoop(parent, index, test, nodeset)

RECURSIVE scanBackward(_, _, _, _)
\* for (let i = index; i < children.length && i >= 0; i--) of findPreceding
scanBackward(children, i, test, nodeset) ==
    IF i = NaN \/ i >= Len(children) \/ i < 0 THEN nodeset
    ELSE LET child == children[i + 1]
             ns1 == IF nodeFilter(test, child) THEN SetAdd(nodeset, child) ELSE nodeset
         IN scanBackward(children, i - 1, test, findDescendants(child, test, ns1))

RECURSIVE precedingLoop(_, _, _, _)
\* one round of the do/while of findPreceding
precedingLoop(parent, index, test, nodeset) ==
    LET ns == scanBackward(nodes[parent].children, index, test, nodeset)
        index2 == jsAdd(nodes[parent].index, -1)
        up == nodes[parent].parent
    IN IF up = Null \/ (index2 # NaN /\ index2 < 0) THEN ns
       ELSE IF isRoot(up) THEN ns
       ELSE precedingLoop(up, index2, test, ns)

findPreceding(node, test, nodeset) ==
    LET attr == isAttribute(node) \/ isNamespace(node)
        parent == IF attr THEN nodes[nodes[node].parent].parent ELSE nodes[node].parent
        index == IF attr THEN jsAdd(nodes[nodes[node].parent].index, -1)
                 ELSE jsAdd(nodes[node].index, -1)
    IN IF parent = Null \/ (index # NaN /\ index < 0) THEN nodeset
       ELSE precedingLoop(parent, index, test, nodeset)

\* addNodeset: only a non-empty node set joins the node-set array
addNodeset(nodesetArray, nodeset) ==
    IF Len(nodeset) > 0 THEN Append(nodesetArray, nodeset) ELSE nodesetArray

\* ------------------------------------------------------------------------
\* PathState, steps of a relative path (s0...): the search starts at the
\* context node and yields a node-set array of at most one node set
\* ------------------------------------------------------------------------
s0SelfTest(node, test) ==
    IF nodeFilter(test, node) THEN <<(<<node>>)>> ELSE <<>>

s0AncestorTest(node, test) == addNodeset(<<>>, findAncestors(node, test, <<>>))

s0DescendantTest(node, test) == addNodeset(<<>>, findDescendants(node, test, <<>>))

s0FollowingTest(node, test) == addNodeset(<<>>, findFollowing(node, test, <<>>))

s0PrecedingTest(node, test) == addNodeset(<<>>, findPreceding(node, test, <<>>))

\* traverseAllLinear: the children of a parent node that pass the test
RECURSIVE traverseAllLinear(_, _, _, _)
traverseAllLinear(children, i, test, result) ==
    IF i > Len(children) THEN result
    ELSE traverseAllLinear(children, i + 1, test,
             IF nodeFilter(test, children[i]) THEN SetAdd(result, children[i]) ELSE result)

s0ChildTest(node, test) ==
    IF isParent(node)
    THEN addNodeset(<<>>, traverseAllLinear(nodes[node].children, 1, test, <<>>))
    ELSE <<>>

\* PathState.step for a step written without a leading slash
s0Step(axis, node, test) ==
    CASE axis = "self" -> s0SelfTest(node, test)
      [] axis = "ancestor" -> s0AncestorTest(node, test)
      [] axis = "descendant" -> s0DescendantTest(node, test)
      [] axis = "following" -> s0FollowingTest(node, test)
      [] axis = "preceding" -> s0PrecedingTest(node, test)
      [] axis = "child" -> s0ChildTest(node, test)

\* ------------------------------------------------------------------------
\* PathState, steps written after a slash (s1...): the search starts at every
\* node of the node set the previous step left, or at the root when that
\* node set is empty. The result is [arr, err]: the node-set array, and
\* "TypeError" when the code dereferences a missing root element.
\* ------------------------------------------------------------------------
StepResult(arr) == [arr |-> arr, err |-> ""]
StepThrows == [arr |-> <<>>, err |-> "TypeError"]

RECURSIVE s1ChildItems(_, _, _, _)
\* for (const item of this.nodeset) of s1ChildNameTest / s1ChildKindTest
s1ChildItems(nodeset, i, test, arr) ==
    IF i > Len(nodeset) THEN arr
    ELSE s1ChildItems(nodeset, i + 1, test,
             IF isParent(nodeset[i])
             THEN addNodeset(arr, traverseAllLinear(nodes[nodeset[i]].children, 1, test, <<>>))
             ELSE arr)

s1ChildTest(nodeset, test) ==
    IF Len(nodeset) = 0
    THEN \* first step: only root.rootElement is looked at, without a null check
         IF rootElement = Null
         THEN IF test.testType \in {"Wildcard", "Node"}
              THEN StepResult(<<(<<Null>>)>>)
              ELSE StepThrows
         ELSE StepResult(addNodeset(<<>>,
                  IF (IF test.type = "NameTest" THEN isNameTestPassed(rootElement, test)
                      ELSE isKindTestPassed(rootElement, test))
                  THEN <<rootElement>> ELSE <<>>))
    ELSE StepResult(s1ChildItems(nodeset, 1, test, <<>>))

RECURSIVE s1DescendantItems(_, _, _, _, _)
\* for (const item of this.nodeset) of the s1Descendant... and
\* s1DescendantOrSelf... functions (orSelf: the item itself is tested first)
s1DescendantItems(nodeset, i, test, orSelf, arr) ==
    IF i > Len(nodeset) THEN arr
    ELSE LET item == nodeset[i]
             start == IF orSelf /\ nodeFilter(test, item) THEN <<item>> ELSE <<>>
         IN s1DescendantItems(nodeset, i + 1, test, orSelf,
                addNodeset(arr, findDescendants(item, test, start)))

\* a first step that searches below the root element instead of the root node
s1DescendantTestBelowRootElement(nodeset, test) ==
    IF Len(nodeset) = 0
    THEN StepResult(addNodeset(<<>>,
             IF rootElement = Null THEN <<>> ELSE findDescendants(rootElement, test, <<>>)))
    ELSE StepResult(s1DescendantItems(nodeset, 1, test, FALSE, <<>>))

s1DescendantTest(nodeset, test) ==
    IF Len(nodeset) = 0
    THEN StepResult(addNodeset(<<>>, findDescendants(1, test, <<>>)))
    ELSE StepResult(s1DescendantItems(nodeset, 1, test, FALSE, <<>>))

s1DescendantOrSelfTest(nodeset, test) ==
    IF Len(nodeset) = 0
    THEN StepResult(addNodeset(<<>>,
             findDescendants(1, test, IF nodeFilter(test, 1) THEN <<1>> ELSE <<>>)))
    ELSE StepResult(s1DescendantItems(nodeset, 1, test, TRUE, <<>>))

RECURSIVE s1AncestorItems(_, _, _, _)
\* for (const item of this.nodeset) of s1AncestorNameTest / s1AncestorKindTest
s1AncestorItems(nodeset, i, test, arr) ==
    IF i > Len(nodeset) THEN arr
    ELSE s1AncestorItems(nodeset, i + 1, test,
                         addNodeset(arr, findAncestors(nodeset[i], test, <<>>)))

s1AncestorTest(nodeset, test) == StepResult(s1AncestorItems(nodeset, 1, test, <<>>))

\* PathState.step: the function named by the step's path, axis and test
step(node, nodeset, ctxNode) ==
    IF node.path = "Single"
    THEN CASE node.axis = "child" -> s1ChildTest(nodeset, node.test)
           [] node.axis = "descendant" -> s1DescendantTest(nodeset, node.test)
           [] node.axis = "descendant-or-self" -> s1DescendantOrSelfTest(nodeset, node.test)
           [] node.axis = "ancestor" -> s1AncestorTest(nodeset, node.test)
    ELSE StepResult(s0Step(node.axis, ctxNode, node.test))

\* ------------------------------------------------------------------------
\* XPath: ordering of node sets
\* ------------------------------------------------------------------------
position(n) == nodes[n].pos

RECURSIVE insertSorted(_, _, _)
\* n placed behind every member of the sorted list that the comparison does
\* not put after it: one step of a stable sort
insertSorted(sorted, n, reverse) ==
    IF Len(sorted) = 0 THEN <<n>>
    ELSE LET last == sorted[Len(sorted)]
             after == IF reverse THEN position(n) > position(last)
                      ELSE position(n) < position(last)
         IN IF after
            THEN Append(insertSorted(SubSeq(sorted, 1, Len(sorted) - 1), n, reverse), last)
            ELSE Append(sorted, n)

RECURSIVE stableSort(_, _)
\* Array.prototype.sort with the comparison a.position() - b.position(), or
\* b.position() - a.position() when reverse
stableSort(list, reverse) ==
    IF Len(list) <= 1 THEN list
    ELSE insertSorted(stableSort(SubSeq(list, 1, Len(list) - 1), reverse),
                      list[Len(list)], reverse)

RECURSIVE toSet(_, _)
\* new Set(array): repeated members are kept once, at their first place
toSet(list, acc) ==
    IF Len(list) = 0 THEN acc ELSE toSet(Tail(list), SetAdd(acc, Head(list)))

RECURSIVE flatten(_)
\* nodes.push(...nodeset) for every node set of a node-set array
flatten(arr) == IF Len(arr) = 0 THEN <<>> ELSE Head(arr) \o flatten(Tail(arr))

sortNodeset(list) == toSet(stableSort(list, FALSE), <<>>)

reorderNodesetArrayInPlace(arr, order) ==
    [i \in 1..Len(arr) |-> toSet(stableSort(arr[i], order = "Reverse"), <<>>)]

\* ------------------------------------------------------------------------
\* XParser: the syntax tree of a query
\* ------------------------------------------------------------------------
NumberNode(value) == [t |-> "NumberNode", value |-> value]
StringNode(value) == [t |-> "StringNode", value |-> value]
CallNode(name, args) == [t |-> "CallNode", name |-> name, args |-> args]
BinaryOpNode(leftNode, rightNode, op) ==
    [t |-> "BinaryOpNode", leftNode |-> leftNode, rightNode |-> rightNode, op |-> op]
PathNode(steps) == [t |-> "PathNode", steps |-> steps]
StepNode(path, axis, test, predicates) ==
    [t |-> "StepNode", path |-> path, axis |-> axis, test |-> test,
     predicates |-> predicates]
PredicateNode(expr, order, hasLeft, leftExpr) ==
    [t |-> "PredicateNode", expr |-> expr, order |-> order,
     hasLeft |-> hasLeft, leftExpr |-> leftExpr]

getOrder(axis) ==
    IF axis \in {"parent", "ancestor", "ancestor-or-self", "preceding", "preceding-sibling"}
    THEN "Reverse" ELSE "Forward"

\* predicate(order): "[" Expr "]" without a left expression
predicate(expr, order) == PredicateNode(expr, order, FALSE, <<>>)

\* axisStep: the step with one predicate per expression of exprs, each in
\* the order of the axis
axisStep(pathSpec, axis, test, exprs) ==
    StepNode(pathSpec, axis, test,
             [i \in 1..Len(exprs) |-> predicate(exprs[i], getOrder(axis))])

\* transformStepNode: //xyz becomes /descendant-or-self::node()/xyz
transformStepNode(node) ==
    IF node.path # "Double" THEN <<node>>
    ELSE <<StepNode("Single", "descendant-or-self", KindTest("Node"), <<>>),
           [node EXCEPT !.path = "Single"]>>

RECURSIVE filterExpr(_, _)
\* filterExpr: PrimaryExpr PredicateList; every predicate takes what is to
\* its left as leftExpr
filterExpr(primary, exprs) ==
    IF Len(exprs) = 0 THEN primary
    ELSE PredicateNode(exprs[Len(exprs)], "Forward", TRUE,
                       filterExpr(primary, SubSeq(exprs, 1, Len(exprs) - 1)))

RECURSIVE transformSteps(_)
transformSteps(steps) ==
    IF Len(steps) = 0 THEN <<>>
    ELSE transformStepNode(Head(steps)) \o transformSteps(Tail(steps))

\* relativePathExpr: StepExpr (("/" | "//") StepExpr)*; first is the first
\* StepExpr, rest are the steps written after it
relativePathExpr(first, rest) ==
    IF Len(rest) = 0
    THEN IF first.t = "StepNode" THEN PathNode(transformStepNode(first)) ELSE first
    ELSE PathNode((CASE first.t = "StepNode" -> transformStepNode(first)
                     [] first.t = "PathNode" -> first.steps
                     [] OTHER -> <<first>>) \o transformSteps(rest))

\* ------------------------------------------------------------------------
\* Strings: sequences of characters
\* ------------------------------------------------------------------------
Digits == {"0", "1", "2", "3", "4", "5", "6", "7", "8", "9"}
\* /\s/
Whitespace == {" ", "\n", "\t", "\r"}

RECURSIVE trimStart(_)
trimStart(chars) ==
    IF chars # <<>> /\ Head(chars) \in Whitespace THEN trimStart(Tail(chars)) ELSE chars

RECURSIVE trimEnd(_)
trimEnd(chars) ==
    IF chars # <<>> /\ chars[Len(chars)] \in Whitespace
    THEN trimEnd(SubSeq(chars, 1, Len(chars) - 1))
    ELSE chars

\* String.trim
trim(chars) == trimEnd(trimStart(chars))

DigitChars == <<"0", "1", "2", "3", "4", "5", "6", "7", "8", "9">>

RECURSIVE decimal(_, _)
\* the number that a string of digits writes
decimal(chars, acc) ==
    IF chars = <<>> THEN acc
    ELSE decimal(Tail(chars), 10 * acc + (CHOOSE k \in 0..9 : DigitChars[k + 1] = Head(chars)))

\* the unary + of JavaScript on a string, for strings of digits, blanks and
\* letters: blanks around the digits are dropped, a blank string is 0 and a
\* string with a letter is NaN
unaryPlus(chars) ==
    IF trim(chars) = <<>> THEN 0
    ELSE IF \A i \in 1..Len(trim(chars)) : trim(chars)[i] \in Digits THEN decimal(trim(chars), 0)
    ELSE NaN

RECURSIVE numberToString(_)
\* Number.prototype.toString for NaN and the natural numbers
numberToString(n) ==
    IF n = NaN THEN <<"N", "a", "N">>
    ELSE IF n < 10 THEN <<DigitChars[n + 1]>>
    ELSE numberToString(n \div 10) \o <<DigitChars[(n % 10) + 1]>>

\* A node of a node-set that is an operand of a comparison is given by its
\* string-value.
stringValue(node) == node
\* TextNode.numberValue, ElementNode.numberValue
numberValue(node) == IF Len(trim(stringValue(node))) > 0 THEN unaryPlus(stringValue(node)) ELSE NaN

\* ------------------------------------------------------------------------
\* XPath: the data stack and the conversions of XDataEval
\* ------------------------------------------------------------------------
\* XData: {cType, value, nodesetArray?}. hasArray says that nodesetArray is
\* present; isNull says that value is null (a step with predicates).
XData(cType, value) ==
    [cType |-> cType, value |-> value, hasArray |-> FALSE, nodesetArray |-> <<>>,
     isNull |-> FALSE]
XPartitions(nodesetArray) ==
    [cType |-> "Nodeset", value |-> <<>>, hasArray |-> TRUE,
     nodesetArray |-> nodesetArray, isNull |-> TRUE]
\* what Array.prototype.pop returns for an empty data stack
Undefined == XData("undefined", 0)

\* The evaluation state: the data stack, the context stack and the error
\* thrown ("" while none is).
pushData(st, data) == [st EXCEPT !.ds = Append(@, data)]
topData(st) == IF Len(st.ds) = 0 THEN Undefined ELSE st.ds[Len(st.ds)]
popData(st) ==
    IF Len(st.ds) = 0 THEN st ELSE [st EXCEPT !.ds = SubSeq(@, 1, Len(@) - 1)]
pushContext(st, c) == [st EXCEPT !.cs = Append(@, c)]
popContext(st) == [st EXCEPT !.cs = SubSeq(@, 1, Len(@) - 1)]
ctx(st) == st.cs[Len(st.cs)]
throw(st, e) == [st EXCEPT !.err = e]

isNodeset(data) == data.cType = "Nodeset"

toBoolean(data) ==
    CASE data.cType = "Boolean" -> data.value
      [] data.cType = "Nodeset" -> Len(data.value) > 0
      [] data.cType = "Number" -> data.value # 0 /\ data.value # NaN
      [] data.cType = "String" -> Len(data.value) > 0

\* a node-set is converted by the number value of its first node, which is
\* known for the node-sets of comparisons only
toNumber(data) ==
    CASE data.cType = "Number" -> data.value
      [] data.cType = "Boolean" -> IF data.value THEN 1 ELSE 0
      [] data.cType = "Nodeset" ->
             IF Len(data.value) > 0 THEN numberValue(data.value[1]) ELSE NaN
      [] data.cType = "String" ->
             IF Len(data.value) > 0 THEN unaryPlus(data.value) ELSE NaN

toString(data) ==
    CASE data.cType = "String" -> data.value
      [] data.cType = "Boolean" ->
             IF data.value THEN <<"t", "r", "u", "e">> ELSE <<"f", "a", "l", "s", "e">>
      [] data.cType = "Number" -> numberToString(data.value)
      [] data.cType = "Nodeset" ->
             IF Len(data.value) > 0 THEN stringValue(data.value[1]) ELSE <<>>

\* ------------------------------------------------------------------------
\* XPath: the visitors. Each takes the evaluation state and returns the
\* state it leaves; once an error is thrown the stacks stay as they were at
\* the throw.
\* ------------------------------------------------------------------------
\* a numeric predicate compared with the context size instead of the position
evaluatePredicateExprBySize(res, c) ==
    CASE res.cType = "Number" -> res.value = c.size
      [] res.cType = "Boolean" -> res.value
      [] OTHER -> toBoolean(res)

evaluatePredicateExpr(res, c) ==
    CASE res.cType = "Number" -> res.value = c.pos
      [] res.cType = "Boolean" -> res.value
      [] OTHER -> toBoolean(res)

evaluateArithmeticExpr(st, left, right, op) ==
    IF left.cType = "undefined" THEN throw(st, "TypeError")
    ELSE LET leftVal == toNumber(left)
             rightVal == toNumber(right)
         IN pushData(st, XData("Number",
                IF leftVal = NaN \/ rightVal = NaN THEN NaN
                ELSE CASE op = "+" -> leftVal + rightVal
                       [] op = "-" -> leftVal - rightVal))

evaluateConditionalExpr(st, left, right, op) ==
    IF left.cType = "undefined" THEN throw(st, "TypeError")
    ELSE LET leftVal == toBoolean(left)
         IN pushData(st, XData("Boolean",
                IF op = "or"
                THEN (IF leftVal THEN leftVal ELSE toBoolean(right))
                ELSE (IF ~leftVal THEN leftVal ELSE toBoolean(right))))

evaluatePipeExpr(st, left, right) ==
    IF left.cType = "undefined" THEN throw(st, "TypeError")
    ELSE IF ~isNodeset(left) \/ ~isNodeset(right) THEN throw(st, "Error")
    ELSE pushData(st, XData("Nodeset", sortNodeset(toSet(right.value, left.value))))

RECURSIVE visit(_, _, _)
RECURSIVE visitSteps(_, _, _)
RECURSIVE visitPredicates(_, _, _)
RECURSIVE evalContexts(_, _, _, _, _, _)
RECURSIVE evalPartitions(_, _, _, _, _, _)

\* node.steps.forEach of visitPathNode: the i-th step is visited with
\* node.pos = i - 1
visitSteps(steps, i, st) ==
    IF st.err # "" \/ i > Len(steps) THEN st
    ELSE visitSteps(steps, i + 1, visit(steps[i], i - 1, st))

visitPathNode(node, st) == visitSteps(node.steps, 1, pushData(st, XData("Nodeset", <<>>)))

\* for (const pred of node.predicates) of visitStepNode
visitPredicates(preds, i, st) ==
    IF st.err # "" \/ i > Len(preds) THEN st
    ELSE visitPredicates(preds, i + 1, visit(preds[i], 0, st))

visitStepNode(node, stepPos, st) ==
    LET data == topData(st)
        st1 == popData(st)
        nodeset == data.value
    IN IF stepPos > 0 /\ Len(nodeset) = 0 THEN pushData(st1, data)
       ELSE LET r == step(node, nodeset, ctx(st).node)
            IN IF r.err # "" THEN throw(st1, r.err)
               ELSE IF Len(node.predicates) = 0
               THEN pushData(st1, XData("Nodeset", sortNodeset(flatten(r.arr))))
               ELSE visitPredicates(node.predicates, 1, pushData(st1, XPartitions(r.arr)))

\* for (const ctxNode of partition) of visitPredicateNode, from the k-th
\* node of the partition on
evalContexts(expr, partition, k, st, result, tmp) ==
    IF st.err # "" \/ k > Len(partition)
    THEN [st |-> st, result |-> result, tmp |-> tmp]
    ELSE LET ctxNode == partition[k]
             st1 == pushContext(st, [pos |-> k, size |-> Len(partition), node |-> ctxNode])
             st2 == visit(expr, 0, st1)
             res == topData(st2)
             st3 == popData(st2)
         IN IF st2.err # "" THEN [st |-> st2, result |-> result, tmp |-> tmp]
            ELSE IF res.cType = "undefined"
            THEN [st |-> throw(st3, "TypeError"), result |-> result, tmp |-> tmp]
            ELSE LET keep == evaluatePredicateExpr(res, ctx(st3))
                 IN evalContexts(expr, partition, k + 1, popContext(st3),
                                 IF keep THEN SetAdd(result, ctxNode) ELSE result,
                                 IF keep THEN SetAdd(tmp, ctxNode) ELSE tmp)

\* for (const partition of partitions) of visitPredicateNode
evalPartitions(expr, partitions, i, st, result, nodesetArray) ==
    IF st.err # "" \/ i > Len(partitions)
    THEN [st |-> st, result |-> result, nodesetArray |-> nodesetArray]
    ELSE LET r == evalContexts(expr, partitions[i], 1, st, result, <<>>)
         IN evalPartitions(expr, partitions, i + 1, r.st, r.result,
                           IF Len(r.tmp) > 0 THEN Append(nodesetArray, r.tmp)
                           ELSE nodesetArray)

\* the second half of visitPredicateNode: the predicate is evaluated at
\* every node of every partition and the sorted result is pushed
filterPartitions(node, partitions, st) ==
    LET r == evalPartitions(node.expr, reorderNodesetArrayInPlace(partitions, node.order),
                            1, st, <<>>, <<>>)
    IN IF r.st.err # "" THEN r.st
       ELSE pushData(r.st, [XData("Nodeset", sortNodeset(r.result))
                               EXCEPT !.hasArray = TRUE, !.nodesetArray = r.nodesetArray])

visitPredicateNode(node, st) ==
    IF node.hasLeft
    THEN LET st1 == visit(node.leftExpr, 0, st)
             data == topData(st1)
             st2 == popData(st1)
             \* the pop for the "orphaned" PathNode
             st3 == IF node.leftExpr.t = "PathNode" THEN popData(st2) ELSE st2
         IN IF st1.err # "" THEN st1
            ELSE IF data.cType = "undefined" THEN throw(st3, "TypeError")
            ELSE IF ~data.hasArray
            THEN IF isNodeset(data) /\ ~data.isNull
                 THEN filterPartitions(node, <<data.value>>, st3)
                 ELSE throw(st3, "Error")
            ELSE filterPartitions(node, <<toSet(flatten(data.nodesetArray), <<>>)>>, st3)
    ELSE LET data == topData(st)
             st1 == popData(st)
         IN IF data.cType = "undefined" THEN throw(st1, "TypeError")
            ELSE IF ~isNodeset(data) \/ ~data.hasArray THEN throw(st1, "Error")
            ELSE filterPartitions(node, data.nodesetArray, st1)

visitBinaryOpNode(node, st) ==
    LET st1 == visit(node.leftNode, 0, st)
        st2 == visit(node.rightNode, 0, st1)
        right == topData(st2)
        st3 == popData(st2)
        left == topData(st3)
        st4 == popData(st3)
    IN IF st1.err # "" THEN st1
       ELSE IF st2.err # "" THEN st2
       ELSE CASE node.op \in {"+", "-"} -> evaluateArithmeticExpr(st4, left, right, node.op)
              [] node.op \in {"or", "and"} -> evaluateConditionalExpr(st4, left, right, node.op)
              [] node.op = "|" -> evaluatePipeExpr(st4, left, right)

\* the argument of a one-argument function, visited and popped
countFn(node, st) ==
    LET st1 == visit(node.args[1], 0, st)
        data == topData(st1)
        st2 == popData(st1)
    IN IF st1.err # "" THEN st1
       ELSE IF data.cType = "undefined" THEN throw(st2, "TypeError")
       ELSE IF ~isNodeset(data) THEN pushData(st2, XData("Number", NaN))
       ELSE pushData(st2, XData("Number", Len(data.value)))

sumFn(node, st) ==
    LET st1 == visit(node.args[1], 0, st)
        data == topData(st1)
        st2 == popData(st1)
    IN IF st1.err # "" THEN st1
       ELSE IF data.cType = "undefined" THEN throw(st2, "TypeError")
       ELSE IF ~isNodeset(data) THEN throw(st2, "Error")
       ELSE CASE Len(data.value) = 0 -> pushData(st2, XData("Number", 0))

\* FnSignature without retType and fn; variadic is false where the table
\* leaves it out
Signature(paramCount, omittableParam, variadic) ==
    [paramCount |-> paramCount, omittableParam |-> omittableParam, variadic |-> variadic]

\* the table `functions` of callFunction
functions ==
    "last" :> Signature(0, 0, FALSE) @@
    "position" :> Signature(0, 0, FALSE) @@
    "count" :> Signature(1, 0, FALSE) @@
    "local-name" :> Signature(1, 1, FALSE) @@
    "namespace-uri" :> Signature(1, 1, FALSE) @@
    "name" :> Signature(1, 1, FALSE) @@
    "boolean" :> Signature(1, 0, FALSE) @@
    "not" :> Signature(1, 0, FALSE) @@
    "true" :> Signature(0, 0, FALSE) @@
    "false" :> Signature(0, 0, FALSE) @@
    "lang" :> Signature(1, 0, FALSE) @@
    "number" :> Signature(1, 1, FALSE) @@
    "sum" :> Signature(1, 0, FALSE) @@
    "floor" :> Signature(1, 0, FALSE) @@
    "ceiling" :> Signature(1, 0, FALSE) @@
    "round" :> Signature(1, 0, FALSE) @@
    "string" :> Signature(1, 1, FALSE) @@
    "concat" :> Signature(2, 0, TRUE) @@
    "starts-with" :> Signature(2, 0, FALSE) @@
    "contains" :> Signature(2, 0, FALSE) @@
    "substring-before" :> Signature(2, 0, FALSE) @@
    "substring-after" :> Signature(2, 0, FALSE) @@
    "substring" :> Signature(3, 1, FALSE) @@
    "string-length" :> Signature(1, 1, FALSE) @@
    "normalize-space" :> Signature(1, 1, FALSE) @@
    "translate" :> Signature(3, 0, FALSE)

\* the check of the argument count that accepts every count above paramCount
argumentErrorFewOnly(func, argc) ==
    argc < func.paramCount /\ func.paramCount - argc # func.omittableParam

\* "check param count" of callFunction: whether this.error is called
argumentError(func, argc) ==
    IF argc # func.paramCount
    THEN IF argc < func.paramCount
         THEN func.paramCount - argc # func.omittableParam
         ELSE argc > func.paramCount /\ ~func.variadic
    ELSE FALSE

\* what callFunction does with a call before the body of the function
\* runs: "error" when this.error throws, "fn" when func.fn(node) is called
dispatched(name, argc) ==
    IF name \notin DOMAIN functions THEN "error"
    ELSE IF argumentError(functions[name], argc) THEN "error"
    ELSE "fn"

\* callFunction: the argument count is checked, then the function runs
callFunction(node, st) ==
    IF dispatched(node.name, Len(node.args)) = "error" THEN throw(st, "Error")
       ELSE CASE node.name = "count" -> countFn(node, st)
              [] node.name = "sum" -> sumFn(node, st)
              [] node.name = "true" -> pushData(st, XData("Boolean", TRUE))
              [] node.name = "false" -> pushData(st, XData("Boolean", FALSE))
              [] node.name = "last" -> pushData(st, XData("Number", ctx(st).size))
              [] node.name = "position" -> pushData(st, XData("Number", ctx(st).pos))

visit(node, stepPos, st) ==
    CASE node.t = "PathNode" -> visitPathNode(node, st)
      [] node.t = "StepNode" -> visitStepNode(node, stepPos, st)
      [] node.t = "PredicateNode" -> visitPredicateNode(node, st)
      [] node.t = "BinaryOpNode" -> visitBinaryOpNode(node, st)
      [] node.t = "CallNode" -> callFunction(node, st)
      [] node.t = "NumberNode" -> pushData(st, XData("Number", node.value))
      [] node.t = "StringNode" -> pushData(st, XData("String", node.value))

\* query(): what it returns or throws, and the stacks it leaves, when called
\* on an XPath object whose stacks are ds and cs
Outcome(err, cType, value) == [err |-> err, cType |-> cType, value |-> value]

\* XPath.endComputation on the state a visit left, then the undefined check
\* of query: st1 is the state after the visit
endComputation(st1, result, st2) ==
    IF st1.err # ""
    THEN [ds |-> st1.ds, cs |-> st1.cs, out |-> Outcome(st1.err, "", 0)]
    ELSE IF Len(st2.ds) > 0
    THEN [ds |-> <<>>, cs |-> st2.cs, out |-> Outcome("Computation Error", "", 0)]
    ELSE IF result.cType = "undefined"
    THEN [ds |-> st2.ds, cs |-> st2.cs, out |-> Outcome("TypeError", "", 0)]
    ELSE [ds |-> st2.ds, cs |-> st2.cs, out |-> Outcome("", result.cType, result.value)]

popResult(st1) == endComputation(st1, topData(st1), popData(st1))

query(q, ds, cs) ==
    popResult(visit(q, 0, [ds |-> ds,
                           cs |-> Append(cs, [pos |-> 1, size |-> 1, node |-> 1]),
                           err |-> ""]))

queryNew(q) == query(q, <<>>, <<>>).out

\* ------------------------------------------------------------------------
\* The tree as a document: helpers of the properties below
\* ------------------------------------------------------------------------
AllNodes == 1..Len(nodes)
\* the nodes that are neither attributes nor namespace declarations
DocNodes == {n \in AllNodes : ~isAttribute(n) /\ ~isNamespace(n)}
\* the nodes of all node sets of a node-set array
ArrayMembers(arr) == UNION {Members(arr[i]) : i \in 1..Len(arr)}

RECURSIVE Subtree(_)
\* n with everything below it: children and attributes, recursively
Subtree(n) ==
    {n} \cup UNION {Subtree(c) : c \in Members(nodes[n].children) \cup Members(nodes[n].attributes)}

FiveAxes == {"preceding", "ancestor", "self", "descendant", "following"}
AxisSet(axis, n) == ArrayMembers(s0Step(axis, n, KindTest("Node")))

\* C1: for every node n of a parsed document that is neither an attribute
\* nor a namespace, the node sets of preceding::node(), ancestor::node(),
\* self::node(), descendant::node() and following::node() evaluated at n are
\* pairwise disjoint and together hold every such node of the document.
C1_FiveAxesPartition ==
    pc = "done" =>
        \A n \in DocNodes :
            /\ UNION {AxisSet(ax, n) : ax \in FiveAxes} = DocNodes
            /\ \A a1 \in FiveAxes : \A a2 \in FiveAxes \ {a1} :
                   AxisSet(a1, n) \cap AxisSet(a2, n) = {}

\* C2: after a successful parse every node n held in some children sequence
\* satisfies n.parent.children[n.index] = n, the text child of an HTML
\* script element included.
C2_ParentIndexOfChildren ==
    pc = "done" =>
        \A p \in AllNodes : \A c \in Members(nodes[p].children) :
            /\ nodes[c].parent # Null
            /\ jsAt(nodes[nodes[c].parent].children, nodes[c].index) = c

\* C3: after a successful parse the position of every node is strictly
\* smaller than the position of each of its descendants (children,
\* attributes, recursively) and than the position of every node in the
\* subtrees of its following siblings.
C3_PositionsFollowDocumentOrder ==
    pc = "done" =>
        \A n \in AllNodes :
            /\ \A d \in Subtree(n) \ {n} : nodes[n].pos < nodes[d].pos
            /\ nodes[n].parent # Null /\ ~isAttribute(n) =>
                   LET sibs == nodes[nodes[n].parent].children
                   IN \A i \in 1..Len(sibs) : \A j \in (i + 1)..Len(sibs) :
                          sibs[i] = n => \A d \in Subtree(sibs[j]) : nodes[n].pos < nodes[d].pos

\* ------------------------------------------------------------------------
\* Queries, as XParser builds them
\* ------------------------------------------------------------------------
\* //test and //test[e1][e2]...
AnyLevel(test, exprs) == relativePathExpr(axisStep("Double", "child", test, exprs), <<>>)
\* /axis::test
FromRoot(axis, test) == relativePathExpr(axisStep("Single", axis, test, <<>>), <<>>)
\* (primary)[e1][e2]..., alone
Filtered(primary, exprs) == relativePathExpr(filterExpr(primary, exprs), <<>>)
\* (primary)[e1].../name
FilteredThenChild(primary, exprs, name) ==
    relativePathExpr(filterExpr(primary, exprs),
                     <<axisStep("Single", "child", NameTest(name), <<>>)>>)
Count(arg) == CallNode("count", <<arg>>)

\* the names a name test is written with
TestNames == ElemNames \cup HtmlVoidElementNames \cup {scriptTag}

\* the node-set queries whose result order is examined
NodesetQueries ==
    {FromRoot("descendant-or-self", KindTest("Node")),
     FromRoot("descendant", Wildcard),
     AnyLevel(KindTest("Node"), <<>>),
     AnyLevel(KindTest("Text"), <<>>),
     AnyLevel(Wildcard, <<NumberNode(1)>>),
     BinaryOpNode(AnyLevel(NameTest("b"), <<>>), AnyLevel(NameTest("a"), <<>>), "|")}

StrictlyIncreasing(s) ==
    \A i \in 1..Len(s) : \A j \in (i + 1)..Len(s) : position(s[i]) < position(s[j])

\* C4: the node set a query returns on a parsed document lists its nodes in
\* strictly increasing position: no node twice, no two nodes of one position.
C4_ResultInDocumentOrder ==
    pc = "done" =>
        \A q \in NodesetQueries :
            LET out == queryNew(q)
            IN out.err = "" /\ out.cType = "Nodeset" /\ StrictlyIncreasing(out.value)

\* the elements of the document
Elements == {n \in AllNodes : isElement(n)}
CountOf(q) == queryNew(Count(q))

\* C5 as the specification states it: count(//*) is count(/descendant::*)
\* plus one when the document has a root element.
C5_CountIsDescendantsPlusRoot ==
    pc = "done" =>
        /\ CountOf(AnyLevel(Wildcard, <<>>)).err = ""
        /\ CountOf(FromRoot("descendant", Wildcard)).err = ""
        /\ CountOf(AnyLevel(Wildcard, <<>>)).value =
               CountOf(FromRoot("descendant", Wildcard)).value
                   + (IF rootElement # Null THEN 1 ELSE 0)

\* C5, amended: on every parsed document count(//*) and count(/descendant::*)
\* both evaluate, without error, to the number of elements of the document;
\* the root element is a descendant of the root node and is counted by both.
C5_CountsAreEqual ==
    pc = "done" =>
        /\ CountOf(AnyLevel(Wildcard, <<>>)) = Outcome("", "Number", Cardinality(Elements))
        /\ CountOf(FromRoot("descendant", Wildcard)) = Outcome("", "Number", Cardinality(Elements))

C5_Witness ==
    /\ pc = "done"
    /\ rootElement # Null
    /\ Cardinality(Elements) >= 2
    /\ CountOf(AnyLevel(Wildcard, <<>>)).value = CountOf(FromRoot("descendant", Wildcard)).value

\* the place of child c among the children of its parent that are elements
\* named name (0 when c is not one of them)
RECURSIVE RankAmong(_, _, _)
RankAmong(children, c, name) ==
    IF Len(children) = 0 THEN 0
    ELSE LET last == children[Len(children)]
             before == SubSeq(children, 1, Len(children) - 1)
             counted == Cardinality({i \in 1..Len(before) :
                            isElement(before[i]) /\ nodes[before[i]].name = name})
         IN IF last = c
            THEN (IF isElement(c) /\ nodes[c].name = name THEN counted + 1 ELSE 0)
            ELSE RankAmong(before, c, name)

\* the elements named name that are the first such child of their parent
FirstOfParent(name) ==
    {n \in Elements : RankAmong(nodes[nodes[n].parent].children, n, name) = 1}

RECURSIVE Preorder(_)
RECURSIVE PreorderAll(_)
\* the nodes of the subtree of n in document order (attributes left out)
Preorder(n) == <<n>> \o PreorderAll(nodes[n].children)
PreorderAll(children) ==
    IF Len(children) = 0 THEN <<>>
    ELSE Preorder(Head(children)) \o PreorderAll(Tail(children))

\* the first element named name in document order, as a list of 0 or 1 node
FirstInDocument(name) ==
    LET named == SelectSeq(Preorder(1), LAMBDA n : isElement(n) /\ nodes[n].name = name)
    IN IF Len(named) = 0 THEN <<>> ELSE <<Head(named)>>

\* C6: //X[1] selects every element X that is the first X child of its
\* parent; (//X)[1] selects the first X of the document, or nothing when
\* the document has no X.
C6_PositionPerParentOrGlobal ==
    pc = "done" =>
        \A name \in TestNames :
            LET perParent == queryNew(AnyLevel(NameTest(name), <<NumberNode(1)>>))
                global == queryNew(Filtered(AnyLevel(NameTest(name), <<>>), <<NumberNode(1)>>))
            IN /\ perParent.err = "" /\ perParent.cType = "Nodeset"
               /\ Members(perParent.value) = FirstOfParent(name)
               /\ global = Outcome("", "Nodeset", FirstInDocument(name))

C6_Witness ==
    /\ pc = "done"
    /\ \E name \in TestNames :
           /\ Cardinality(FirstOfParent(name)) >= 2
           /\ Len(queryNew(Filtered(AnyLevel(NameTest(name), <<>>), <<NumberNode(1)>>)).value) = 1
           /\ Cardinality(Members(queryNew(AnyLevel(NameTest(name), <<NumberNode(1)>>)).value)) >= 2

\* ------------------------------------------------------------------------
\* Queries on one XPath object: the stacks are fields of the object and
\* outlive a call
\* ------------------------------------------------------------------------
\* 1
QOne == NumberNode(1)
\* //a
QAll == AnyLevel(NameTest("a"), <<>>)
\* (//a)[1]
QFilter == Filtered(QAll, <<NumberNode(1)>>)
\* (//a)[1]/b
QFilterThenStep == FilteredThenChild(QAll, <<NumberNode(1)>>, "b")
\* 1 + count((//a)[1])
QFilterAsOperand == BinaryOpNode(NumberNode(1), Count(QFilter), "+")
\* (//a | //b)[1]/a
QUnionFilterThenStep ==
    FilteredThenChild(BinaryOpNode(QAll, AnyLevel(NameTest("b"), <<>>), "|"),
                      <<NumberNode(1)>>, "a")
\* count(//a) + sum("3")
QThrowsMidway == BinaryOpNode(Count(QAll), CallNode("sum", <<StringNode(<<"3">>)>>), "+")
\* true() or sum("3")
QOrShort == BinaryOpNode(CallNode("true", <<>>), CallNode("sum", <<StringNode(<<"3">>)>>), "or")
\* false() and sum("3")
QAndShort == BinaryOpNode(CallNode("false", <<>>), CallNode("sum", <<StringNode(<<"3">>)>>), "and")

Queries ==
    {QOne, QAll, QFilter, QFilterThenStep, QFilterAsOperand, QUnionFilterThenStep,
     QThrowsMidway, QOrShort, QAndShort}

\* query() calls made on one XPath object
MaxQueries == 2
\* nodes of a document that is queried
MaxQueryNodes == 2

\* the object keeps what the call left on its stacks
Returned(r) ==
    /\ dataStack' = r.ds
    /\ ctxStack' = r.cs
    /\ lastOut' = r.out

Query(q) ==
    /\ pc = "done"
    /\ nq < MaxQueries
    /\ Len(nodes) - 1 <= MaxQueryNodes
    /\ Returned(query(q, dataStack, ctxStack))
    /\ lastQuery' = q
    /\ nq' = nq + 1
    /\ UNCHANGED <<parserVars, lexerVars, nameVars, domVars>>

\* the first element with one of the names in document order, as a list of
\* 0 or 1 node
FirstInDocumentOf(names) ==
    LET named == SelectSeq(Preorder(1), LAMBDA n : isElement(n) /\ nodes[n].name \in names)
    IN IF Len(named) = 0 THEN <<>> ELSE <<Head(named)>>

\* the child elements named name of the node of a list of 0 or 1 node
ChildrenNamed(list, name) ==
    IF Len(list) = 0 THEN <<>>
    ELSE SelectSeq(nodes[list[1]].children,
                   LAMBDA n : isElement(n) /\ nodes[n].name = name)

\* C7: on a new XPath object a filter expression (E)[1] yields the first
\* member of E in document order and the query ends without error, whether
\* the filter expression stands alone, is the first step of a longer path,
\* is an argument of a call that is the right operand of +, or has a union
\* as E.
C7_FilterExprAnywhere ==
    nq = 1 =>
        /\ lastQuery = QFilter =>
               lastOut = Outcome("", "Nodeset", FirstInDocument("a"))
        /\ lastQuery = QFilterThenStep =>
               lastOut = Outcome("", "Nodeset", ChildrenNamed(FirstInDocument("a"), "b"))
        /\ lastQuery = QFilterAsOperand =>
               lastOut = Outcome("", "Number", 1 + Len(FirstInDocument("a")))
        /\ lastQuery = QUnionFilterThenStep =>
               lastOut = Outcome("", "Nodeset",
                                 ChildrenNamed(FirstInDocumentOf({"a", "b"}), "a"))

\* C8: whatever was called before on the same XPath object, a query returns
\* or throws what it returns or throws on a new object for the same document.
C8_QueryIndependentOfHistory ==
    nq >= 1 => lastOut = queryNew(lastQuery)

\* C9: true() or sum("3") is true and false() and sum("3") is false: the
\* error that evaluating sum("3") raises is not raised.
C9_ShortCircuit ==
    nq = 1 =>
        /\ lastQuery = QOrShort => lastOut = Outcome("", "Boolean", TRUE)
        /\ lastQuery = QAndShort => lastOut = Outcome("", "Boolean", FALSE)

\* ------------------------------------------------------------------------
\* Lexer. The functions of the class take the fields of the lexer as a record
\* lx and return the record they leave: cur, start, line, col, atError,
\* errors and vFlag are the fields, ret is the token the last newToken call
\* returned and null tells that skip returned null.
\* ------------------------------------------------------------------------
Lower == {"a", "b", "c", "d", "e", "f", "g", "h", "i", "j", "k", "l", "m",
          "n", "o", "p", "q", "r", "s", "t", "u", "v", "w", "x", "y", "z"}
Upper == {"A", "B", "C", "D", "E", "F", "G", "H", "I", "J", "K", "L", "M",
          "N", "O", "P", "Q", "R", "S", "T", "U", "V", "W", "X", "Y", "Z"}

isDigit(ch) == ch \in Digits
isAlpha(ch) == ch \in Upper \cup Lower \cup {"_"}
isNameStart(ch) == ch = ":" \/ isAlpha(ch)
\* XmlLexer.isNameChar and HtmlLexer.isNameChar
isNameChar(ch) ==
    \/ ch \in {".", "-"} \/ isAlpha(ch) \/ isDigit(ch)
    \/ mode = "HTML" /\ ch = ":"

\* source.slice(from, to)
slice(from, to) ==
    LET hi == IF to > Len(source) THEN Len(source) ELSE to
    IN IF from >= hi THEN <<>> ELSE SubSeq(source, from + 1, hi)

atEnd(lx) == lx.cur >= Len(source)
\* source.charAt(currentIndex + n): "" past the end
peek(lx, n) == IF lx.cur + n < Len(source) THEN source[lx.cur + n + 1] ELSE ""
expect(lx, sub) == ~atEnd(lx) /\ slice(lx.cur, lx.cur + Len(sub)) = sub

move(lx) ==
    IF peek(lx, 0) = "\n"
    THEN [lx EXCEPT !.cur = @ + 1, !.line = @ + 1, !.col = 1]
    ELSE [lx EXCEPT !.cur = @ + 1, !.col = @ + 1]

RECURSIVE moveN(_, _)
moveN(lx, n) == IF n = 0 THEN lx ELSE moveN(move(lx), n - 1)

Token(lx, type, errorMsg, end) ==
    [type |-> type, value |-> slice(lx.start, end), line |-> lx.line,
     col |-> lx.col, msg |-> errorMsg]

\* newToken(type, errorMsg, end)
newTokenTo(lx, type, errorMsg, end) ==
    LET flagged == IF type = "TokenError" THEN [lx EXCEPT !.atError = TRUE] ELSE lx
        tok == Token(lx, type, errorMsg, end)
    IN IF type = "TokenError" /\ Len(lx.errors) > 0
       THEN [flagged EXCEPT !.ret = lx.errors[Len(lx.errors)]]
       ELSE [flagged EXCEPT !.ret = tok,
                            !.errors = IF flagged.atError THEN Append(@, tok) ELSE @]

\* newToken(type, errorMsg): the token ends at currentIndex
newToken(lx, type, errorMsg) == newTokenTo(lx, type, errorMsg, lx.cur)

errorToken(lx, errorMsg) == newToken(lx, "TokenError", errorMsg)

RECURSIVE skipSpaces(_)
\* while (!this.atEnd() && /\s/.test(this.peek())) this.move()
skipSpaces(lx) ==
    IF ~atEnd(lx) /\ peek(lx, 0) \in Whitespace THEN skipSpaces(move(lx)) ELSE lx

space(lx) == skipSpaces(lx)

\* preserveSpace is on (the default of the constructor)
skipWhitespace(lx) == IF lx.vFlag = ">" THEN lx ELSE skipSpaces(lx)

\* skip(char, errMsg): null is FALSE when an error token is returned
skip(lx, char, errMsg) ==
    LET sp == space(lx)
    IN IF peek(sp, 0) # char
       THEN [errorToken(sp, errMsg) EXCEPT !.null = FALSE]
       ELSE [move(sp) EXCEPT !.null = TRUE]

RECURSIVE whileNameChar(_)
whileNameChar(lx) == IF isNameChar(peek(lx, 0)) THEN whileNameChar(move(lx)) ELSE lx

lexIdentifier(lx) == newToken(whileNameChar(lx), "TokenName", "")

RECURSIVE lexNumberLoop(_)
lexNumberLoop(lx) ==
    IF isDigit(peek(lx, 0))
    THEN lexNumberLoop(IF peek(move(lx), 0) = "." THEN moveN(lx, 2) ELSE move(lx))
    ELSE lx

lexNumber(lx) == newToken(lexNumberLoop(lx), "TokenNumber", "")

RECURSIVE untilQuote(_, _)
\* while (!this.atEnd() && start !== this.move())
untilQuote(lx, start) ==
    IF ~atEnd(lx) /\ peek(lx, 0) # start THEN untilQuote(move(lx), start)
    ELSE IF ~atEnd(lx) THEN move(lx) ELSE lx

\* scanString(start), the starting quote consumed already
scanString(lx, start) == untilQuote(lx, start)

\* lexString(), the starting quote not consumed yet
lexStringEnd(lx) ==
    IF atEnd(lx) THEN errorToken(lx, "String not properly closed")
    ELSE newToken(lx, "TokenString", "")

lexString(lx) == lexStringEnd(untilQuote(move(lx), peek(lx, 0)))

RECURSIVE untilCommentEnd(_)
untilCommentEnd(lx) ==
    IF atEnd(lx) THEN errorToken(lx, "Comment not properly closed")
    ELSE IF peek(lx, 0) = "-" /\ expect(lx, <<"-", "-", ">">>)
    THEN newToken(moveN(lx, 3), "TokenComment", "")
    ELSE untilCommentEnd(move(lx))

\* lexComment: at "!--"
lexComment(lx) == untilCommentEnd(moveN(lx, 3))

RECURSIVE untilCdataEnd(_)
untilCdataEnd(lx) ==
    IF atEnd(lx) THEN errorToken(lx, "CDATA sect not properly closed")
    ELSE IF peek(lx, 0) = "]" /\ expect(lx, <<"]", "]", ">">>)
    THEN newToken(moveN(lx, 3), "TokenCdata", "")
    ELSE untilCdataEnd(move(lx))

\* lexCdata: at "![CDATA["
lexCdata(lx) == untilCdataEnd(moveN(lx, 8))

isQuote(ch) == ch = "\"" \/ ch = "'"

\* externalId(isPublic): at SYSTEM or PUBLIC
externalId(lx, isPublic) ==
    LET sp == space(moveN(lx, 6))
    IN IF isQuote(peek(sp, 0))
       THEN LET first == lexString(sp)
            IN IF isPublic
               THEN LET sp2 == space(first)
                    IN IF isQuote(peek(sp2, 0)) THEN lexString(sp2)
                       ELSE errorToken(sp2, "Expected string literal")
               ELSE first
       ELSE errorToken(sp, "Expected string literal")

\* peReference: at "%"
peReference(lx) ==
    IF isNameStart(peek(move(lx), 0))
    THEN skip(lexIdentifier(move(lx)), ";", "Invalid PEReference in DTD")
    ELSE errorToken(move(lx), "Expected identifier")

RECURSIVE untilQMark(_)
untilQMark(lx) == IF ~atEnd(lx) /\ peek(lx, 0) # "?" THEN untilQMark(move(lx)) ELSE lx

piEnd(lx) ==
    IF peek(lx, 0) # "?" \/ peek(lx, 1) # ">"
    THEN errorToken(lx, "Invalid processing instruction")
    ELSE moveN(lx, 2)

\* pi: at "<?"
pi(lx) == piEnd(untilQMark(moveN(lx, 2)))

\* the switch on "?", "*" and "+" that ends cp and children
occurrence(lx) == IF peek(lx, 0) \in {"?", "*", "+"} THEN move(lx) ELSE lx

\* a loop whose body leaves currentIndex where it was while its test holds
\* tests the same character for ever: the call stays in the loop, with the
\* lexer as it is there
neverEnds(lx, loop) ==
    IF lx.spin.loop = "" THEN [lx EXCEPT !.spin = [loop |-> loop, at |-> lx]] ELSE lx

\* the body of the while loop of mixed
mixedBody(lx) ==
    LET sp == space(lx)
        bar == space(IF peek(sp, 0) = "|" THEN move(sp) ELSE sp)
    IN lexIdentifier(bar)

RECURSIVE mixedNames(_)
mixedNames(lx) ==
    IF peek(lx, 0) # ")" /\ ~atEnd(lx)
    THEN LET next == mixedBody(lx)
         IN IF next.cur = lx.cur THEN neverEnds(lx, "mixed") ELSE mixedNames(next)
    ELSE lx

mixedEnd(lx) ==
    IF atEnd(lx) THEN lx
    ELSE LET closed == skip(lx, ")", "Expected ')'")
         IN IF peek(closed, 0) = "*" THEN move(closed) ELSE closed

\* mixed: at "#"
mixed(lx) == mixedEnd(mixedNames(move(lx)))

RECURSIVE cp(_)
RECURSIVE choice(_)
RECURSIVE choiceBars(_)
RECURSIVE seq(_)
RECURSIVE seqCommas(_)

cpEnd(lx) == occurrence(IF peek(lx, 0) = "(" THEN choice(lx) ELSE lx)

cp(lx) == cpEnd(lexIdentifier(lx))

\* while (this.peek() === "|") of choice, then skip(")")
choiceBars(lx) ==
    IF peek(lx, 0) = "|" THEN choiceBars(cp(space(move(lx))))
    ELSE skip(lx, ")", "Expected ')'")

choiceAfterSeq(lx) == IF peek(lx, 0) # "|" THEN lx ELSE choiceBars(lx)

choiceAfterCp(lx) ==
    IF peek(lx, 0) = "," THEN choiceAfterSeq(space(seq(lx))) ELSE choiceBars(lx)

choice(lx) == choiceAfterCp(space(cp(IF peek(lx, 0) = "(" THEN space(move(lx)) ELSE lx)))

\* while (this.peek() === ",") of seq, then skip(")")
seqCommas(lx) ==
    IF peek(lx, 0) = "," THEN seqCommas(cp(space(move(lx))))
    ELSE skip(lx, ")", "Expected ')'")

seq(lx) == seqCommas(IF peek(lx, 0) = "(" THEN cp(space(move(lx))) ELSE lx)

children(lx) == occurrence(choice(lx))

contentSpecAt(lx) == IF peek(lx, 0) = "#" THEN mixed(lx) ELSE children(lx)

\* contentSpec: at "("
contentSpec(lx) == contentSpecAt(space(move(lx)))

elementDeclSpec(lx) ==
    CASE peek(lx, 0) = "E" -> skip(moveN(lx, 5), ">", "Expected '>' in element decl")
      [] peek(lx, 0) = "A" -> skip(moveN(lx, 3), ">", "Expected '>' in element decl")
      [] peek(lx, 0) = "(" -> skip(contentSpec(lx), ">", "Expected '>' in element decl")
      [] OTHER -> errorToken(lx, "Invalid DTD content specification")

elementDecl(lx) ==
    IF expect(lx, <<"E", "L", "E", "M", "E", "N", "T">>)
    THEN elementDeclSpec(space(lexIdentifier(space(moveN(lx, 7)))))
    ELSE errorToken(lx, "Unknown DTD markup declaration")

\* AttValue of defaultDecl
attValue(lx) == IF isQuote(peek(lx, 0)) THEN space(lexString(lx)) ELSE lx

defaultDeclAt(lx) ==
    IF peek(lx, 0) \notin {"#", "'", "\""}
    THEN errorToken(lx, "Expected DTD default declaration")
    ELSE IF peek(lx, 0) = "#"
    THEN CASE peek(lx, 1) = "R" -> attValue(space(moveN(lx, 9)))
           [] peek(lx, 1) = "I" -> attValue(space(moveN(lx, 8)))
           [] peek(lx, 1) = "F" -> attValue(space(moveN(lx, 6)))
           [] OTHER -> errorToken(move(lx), "Unknown DTD default declaration")
    ELSE attValue(lx)

defaultDecl(lx) == defaultDeclAt(space(lx))

\* the body of the while loop of enumeration
enumerationBody(lx) ==
    LET sp == space(lx)
        bar == space(IF peek(sp, 0) = "|" THEN move(sp) ELSE sp)
    IN lexIdentifier(bar)

RECURSIVE enumerationNames(_)
enumerationNames(lx) ==
    IF peek(lx, 0) # ")" /\ ~atEnd(lx)
    THEN LET next == enumerationBody(lx)
         IN IF next.cur = lx.cur THEN neverEnds(lx, "enumeration")
            ELSE enumerationNames(next)
    ELSE lx

\* enumeration: at "("
enumeration(lx) ==
    skip(enumerationNames(lexIdentifier(space(move(lx)))), ")", "Expected ')'")

notationType(lx) ==
    IF peek(lx, 0) = "(" THEN enumeration(lx) ELSE errorToken(lx, "Expected '('")

idType(lx) ==
    IF peek(lx, 0) = "R"
    THEN (IF peek(lx, 3) = "S" THEN moveN(lx, 4) ELSE moveN(lx, 3))
    ELSE lx

attType(lx) ==
    CASE peek(lx, 0) = "C" -> moveN(lx, 5)
      [] peek(lx, 0) = "N" /\ peek(lx, 1) = "O" ->
             IF expect(lx, <<"N", "O", "T", "A", "T", "I", "O", "N">>)
             THEN notationType(space(moveN(lx, 8)))
             ELSE errorToken(lx, "Expected 'NOTATION'")
      [] peek(lx, 0) = "(" -> enumeration(lx)
      [] peek(lx, 0) = "I" -> idType(moveN(lx, 2))
      [] peek(lx, 0) = "E" -> IF peek(lx, 5) = "Y" THEN moveN(lx, 6) ELSE moveN(lx, 8)
      [] peek(lx, 0) = "N" /\ peek(lx, 1) # "O" ->
             IF peek(lx, 7) = "S" THEN moveN(lx, 8) ELSE moveN(lx, 7)
      [] OTHER -> lx

RECURSIVE attDefs(_)
attDefsWhile(lx) ==
    IF peek(lx, 0) # ">" /\ ~atEnd(lx) /\ ~lx.atError THEN attDefs(lx)
    ELSE skip(lx, ">", "Expected '>'")

\* do { ... } while (...) of attlistDecl
attDefs(lx) == attDefsWhile(defaultDecl(attType(space(lexIdentifier(space(lx))))))

attlistDecl(lx) ==
    IF expect(lx, <<"A", "T", "T", "L", "I", "S", "T">>)
    THEN attDefs(lexIdentifier(space(moveN(lx, 7))))
    ELSE errorToken(lx, "Unknown DTD markup declaration")

\* (S 'NDATA' S Name)? of entityDecl
ndataDecl(lx) == IF peek(lx, 0) = "N" THEN lexIdentifier(space(moveN(lx, 4))) ELSE lx

entityDef(lx) ==
    IF expect(lx, <<"S", "Y", "S", "T", "E", "M">>)
    THEN skip(externalId(lx, FALSE), ">", "Expected '>'")
    ELSE IF expect(lx, <<"P", "U", "B", "L", "I", "C">>)
    THEN skip(ndataDecl(space(externalId(lx, TRUE))), ">", "Expected '>'")
    ELSE IF isQuote(peek(lx, 0))
    THEN skip(space(lexString(lx)), ">", "Expected '>'")
    ELSE errorToken(lx, "Expected EntityDef")

\* '%' S of a PEDecl
percent(lx) == IF peek(lx, 0) = "%" THEN space(move(lx)) ELSE lx

entityDecl(lx) ==
    IF expect(lx, <<"E", "N", "T", "I", "T", "Y">>)
    THEN entityDef(space(lexIdentifier(percent(space(moveN(lx, 6))))))
    ELSE errorToken(lx, "Unknown DTD markup declaration")

\* S SystemLiteral of a NotationDecl with PUBLIC
systemLiteral(lx) == IF isQuote(peek(lx, 0)) THEN space(lexString(lx)) ELSE lx

notationDef(lx) ==
    IF expect(lx, <<"S", "Y", "S", "T", "E", "M">>)
    THEN skip(externalId(lx, FALSE), ">", "Expected '>'")
    ELSE IF expect(lx, <<"P", "U", "B", "L", "I", "C">>)
    THEN skip(systemLiteral(space(externalId(lx, FALSE))), ">", "Expected '>'")
    ELSE errorToken(lx, "Expected ExternalID or PublicID")

notationDecl(lx) ==
    IF expect(lx, <<"N", "O", "T", "A", "T", "I", "O", "N">>)
    THEN notationDef(space(lexIdentifier(space(moveN(lx, 8)))))
    ELSE errorToken(lx, "Unknown DTD markup declaration")

\* the switch of markupDecl, after "<!" is skipped
declaration(lx) ==
    CASE peek(lx, 1) = "L" -> elementDecl(lx)
      [] peek(lx, 1) = "T" -> attlistDecl(lx)
      [] peek(lx, 1) = "N" -> entityDecl(lx)
      [] peek(lx, 1) = "O" -> notationDecl(lx)
      [] OTHER -> errorToken(lx, "Unknown markup declaration")

\* markupDecl: at "<"
markupDecl(lx) ==
    IF peek(lx, 1) = "?" THEN pi(lx)
    ELSE IF peek(lx, 1) = "!" /\ peek(lx, 2) = "-" /\ peek(lx, 3) = "-"
    THEN lexComment(move(lx))
    ELSE declaration(moveN(lx, 2))

RECURSIVE intSubsetWhile(_)
intSubsetNext(lx) == IF lx.atError THEN lx ELSE intSubsetWhile(lx)

intSubsetWhile(lx) ==
    IF ~atEnd(lx) /\ peek(lx, 0) \in {"%", "<"}
    THEN intSubsetNext(space(IF peek(lx, 0) = "%" THEN peReference(lx) ELSE markupDecl(lx)))
    ELSE lx

intSubset(lx) == intSubsetWhile(space(lx))

\* the end of lexDtd; preserveDtdStructure is off (the default of the
\* constructor): the name token is returned, retyped
dtdClose(lx, dtdNameToken) ==
    IF ~lx.null THEN lx
    ELSE [lx EXCEPT !.ret = [dtdNameToken EXCEPT !.type = "TokenDoctype"]]

dtdEnd(lx, dtdNameToken) ==
    dtdClose(skip(space(lx), ">", "Expected '>' at end of DTD"), dtdNameToken)

dtdAfterBracket(lx, dtdNameToken) == IF ~lx.null THEN lx ELSE dtdEnd(lx, dtdNameToken)

dtdAfterSubset(lx, dtdNameToken) ==
    IF lx.atError THEN errorToken(lx, "")
    ELSE dtdAfterBracket(skip(lx, "]", "Expected ']' at intSubset end"), dtdNameToken)

dtdAfterExternalId(lx, dtdNameToken) ==
    IF lx.atError THEN errorToken(lx, "")
    ELSE IF peek(lx, 0) = "["
    THEN dtdAfterSubset(intSubset(move(lx)), dtdNameToken)
    ELSE dtdEnd(lx, dtdNameToken)

dtdExternalId(lx, dtdNameToken) ==
    dtdAfterExternalId(IF expect(lx, <<"S", "Y", "S", "T", "E", "M">>) THEN externalId(lx, FALSE)
                       ELSE IF expect(lx, <<"P", "U", "B", "L", "I", "C">>) THEN externalId(lx, TRUE)
                       ELSE lx,
                       dtdNameToken)

dtdAfterName(lx) == dtdExternalId(space(lx), lx.ret)

dtdName(lx) ==
    IF isNameStart(peek(lx, 0))
    THEN dtdAfterName(lexIdentifier([lx EXCEPT !.start = lx.cur]))
    ELSE errorToken(lx, "")

\* lexDtd: at "!DOCTYPE"
lexDtd(lx) == dtdName(space(moveN(lx, 8)))

\* String.toLowerCase on the letters of a markup keyword
toLowerCase(chars) ==
    [k \in 1..Len(chars) |->
        CASE chars[k] = "D" -> "d" [] chars[k] = "O" -> "o" [] chars[k] = "C" -> "c"
          [] chars[k] = "T" -> "t" [] chars[k] = "Y" -> "y" [] chars[k] = "P" -> "p"
          [] chars[k] = "E" -> "e" [] chars[k] = "X" -> "x" [] chars[k] = "M" -> "m"
          [] chars[k] = "L" -> "l" [] chars[k] = "N" -> "n" [] chars[k] = "S" -> "s"
          [] OTHER -> chars[k]]

isCommentStart(lx) == expect(lx, <<"!", "-", "-">>)
isCdataStart(lx) == expect(lx, <<"!", "[", "C", "D", "A", "T", "A", "[">>)
isDtdStart(lx) == toLowerCase(slice(lx.cur, lx.cur + 8)) = <<"!", "d", "o", "c", "t", "y", "p", "e">>
isTextStart(lx, current) == current # "<" /\ current # ">" /\ lx.vFlag = ">"

RECURSIVE untilMarkup(_)
\* the loop of Lexer.lexText (XmlLexer) and of HtmlLexer.lexText
untilMarkup(lx) ==
    IF atEnd(lx) THEN lx
    ELSE IF peek(lx, 0) = "<" /\
            (\/ mode = "XML"
             \/ peek(lx, 1) \in {"/", "?"}
             \/ isAlpha(peek(lx, 1))
             \/ expect(lx, <<"<", "!", "-", "-">>)
             \/ expect(lx, <<"<", "!", "[", "C", "D", "A", "T", "A", "[">>))
    THEN lx
    ELSE untilMarkup(move(lx))

lexText(lx) == newToken(untilMarkup(lx), "TokenText", "")

\* preserveComment and preserveCdata are on (the defaults of the constructor)
lexMarkupStart(lx, char) ==
    IF isCommentStart(lx) THEN lexComment(lx)
    ELSE IF isCdataStart(lx) THEN lexCdata(lx)
    ELSE IF isDtdStart(lx) THEN lexDtd(lx)
    ELSE newToken([lx EXCEPT !.vFlag = char], "TokenLThan", "")

\* case "'" and '"' of getToken: the quote is consumed, scanned is the lexer
\* after scanString
quoted(lx, scanned) ==
    IF atEnd(scanned) THEN errorToken(scanned, "String not properly closed")
    ELSE newTokenTo([scanned EXCEPT !.start = lx.cur], "TokenString", "", scanned.cur - 1)

\* getToken after const char = this.move()
dispatch(lx, char) ==
    IF isTextStart(lx, char) THEN lexText(lx)
    ELSE IF isAlpha(char) THEN lexIdentifier(lx)
    ELSE IF isDigit(char) THEN lexNumber(lx)
    ELSE CASE char = "<" -> lexMarkupStart(lx, char)
           [] char = ":" -> newToken(lx, "TokenColon", "")
           [] char = ">" -> IF lx.vFlag = ">" THEN lexText(lx)
                            ELSE newToken([lx EXCEPT !.vFlag = char], "TokenGThan", "")
           [] isQuote(char) -> quoted(lx, scanString(lx, char))
           [] char = "=" -> newToken(lx, "TokenEqual", "")
           [] char = "/" -> newToken(lx, "TokenFSlash", "")
           [] char = "?" -> newToken(lx, "TokenQMark", "")
           [] OTHER -> newToken(lx, "TokenUnknown", "Unknown token")

started(lx) ==
    IF atEnd(lx) THEN newToken(lx, "TokenEof", "") ELSE dispatch(move(lx), peek(lx, 0))

afterWhitespace(lx) ==
    IF lx.atError THEN newToken(lx, "TokenError", "")
    ELSE started([lx EXCEPT !.start = lx.cur])

getToken(lx) == afterWhitespace(skipWhitespace(lx))

\* the fields of the lexer, as the record the functions take
ThisLexer ==
    [cur |-> currentIndex, start |-> startIndex, line |-> line, col |-> column,
     atError |-> atError, errors |-> errors, vFlag |-> vFlag,
     ret |-> [type |-> "none"], null |-> TRUE, spin |-> [loop |-> ""]]

\* ------------------------------------------------------------------------
\* The sources the lexer is given: a prolog followed by a body
\* ------------------------------------------------------------------------
Prologs ==
    {<<>>,
     <<"<", "!", "-", "-", "c", "-", "-", ">">>,
     <<"<", "?", "x", "m", "l", " ", "v", "e", "r", "s", "i", "o", "n", "=", "\"", "1", ".", "0", "\"", "?", ">">>,
     <<"<", "!", "D", "O", "C", "T", "Y", "P", "E", " ", "a", ">">>,
     <<"<", "!", "d", "o", "c", "t", "y", "p", "e", " ", "a", " ", "S", "Y", "S", "T", "E", "M", " ", "\"", "s", "\"", ">">>,
     <<"<", "!", "D", "O", "C", "T", "Y", "P", "E", " ", "a", " ", "P", "U", "B", "L", "I", "C", " ", "\"", "p", "\"", ">">>,
     <<"<", "!", "D", "O", "C", "T", "Y", "P", "E", " ", "a", " ", "[", "<", "!", "E", "N", "T", "I", "T", "Y", " ", "e", " ", "S", "Y", "S", "T", "E", "M", " ", "\"", "s", "\"", ">", "]", ">">>,
     <<"<", "!", "D", "O", "C", "T", "Y", "P", "E", " ", "a", " ", "[", "<", "!", "E", "N", "T", "I", "T", "Y", " ", "%", " ", "e", " ", "\"", "v", "\"", ">", " ", "%", "e", ";", "]", ">">>,
     <<"<", "!", "D", "O", "C", "T", "Y", "P", "E", " ", "a", " ", "[", "<", "!", "E", "N", "T", "I", "T", "Y", " ", "e", " ", "P", "U", "B", "L", "I", "C", " ", "\"", "p", "\"", " ", "N", "D", "A", "T", "A", " ", "n", ">", "]", ">">>,
     <<"<", "!", "D", "O", "C", "T", "Y", "P", "E", " ", "a", " ", "[", "<", "!", "A", "T", "T", "L", "I", "S", "T", " ", "a", " ", "b", " ", "C", "D", "A", "T", "A", " ", "#", "I", "M", "P", "L", "I", "E", "D", " ", "c", " ", "(", "x", "|", "y", ")", " ", "\"", "x", "\"", ">", "]", ">">>,
     <<"<", "!", "D", "O", "C", "T", "Y", "P", "E", " ", "a", " ", "[", "<", "!", "A", "T", "T", "L", "I", "S", "T", " ", "a", " ", "b", " ", "N", "O", "T", "A", "T", "I", "O", "N", " ", "\"", "x", "\"", ">", "]", ">">>,
     <<"<", "!", "D", "O", "C", "T", "Y", "P", "E", " ", "a", " ", "[", "<", "!", "E", "L", "E", "M", "E", "N", "T", " ", "a", " ", "(", "b", "|", "c", ")", "*", ">", "<", "!", "E", "L", "E", "M", "E", "N", "T", " ", "b", " ", "(", "#", "P", "C", "D", "A", "T", "A", ")", ">", "<", "!", "E", "L", "E", "M", "E", "N", "T", " ", "c", " ", "E", "M", "P", "T", "Y", ">", "]", ">">>,
     <<"<", "!", "D", "O", "C", "T", "Y", "P", "E", " ", "a", " ", "[", "<", "!", "E", "L", "E", "M", "E", "N", "T", " ", "a", " ", "(", "b", ",", "(", "c", ")", ")", ">", "<", "!", "E", "L", "E", "M", "E", "N", "T", " ", "b", " ", "A", "N", "Y", ">", "<", "!", "E", "L", "E", "M", "E", "N", "T", " ", "c", " ", "x", ">", "]", ">">>,
     <<"<", "!", "D", "O", "C", "T", "Y", "P", "E", " ", "a", " ", "[", "<", "!", "N", "O", "T", "A", "T", "I", "O", "N", " ", "n", " ", "P", "U", "B", "L", "I", "C", " ", "\"", "p", "\"", " ", "\"", "s", "\"", ">", "<", "?", "p", " ", "x", "?", ">", "<", "!", "-", "-", "c", "-", "-", ">", "]", ">">>,
     <<"<", "!", "D", "O", "C", "T", "Y", "P", "E", " ", "a", " ", "[", "<", "!", "N", "O", "T", "A", "T", "I", "O", "N", " ", "n", " ", "x", ">", "]", ">">>,
     <<"<", "!", "D", "O", "C", "T", "Y", "P", "E", " ", "a", " ", "[", "<", "!", "F", "O", "O", ">", "]", ">">>,
     <<"<", "!", "D", "O", "C", "T", "Y", "P", "E", " ", "a", " ", "[", "<", "!", "E", "L", "E", "M", "E", "N", "T", " ", "a", " ", "(", "#", "P", "C", "D", "A", "T", "A", ",", "b", ")", ">", "]", ">">>,
     <<"<", "!", "D", "O", "C", "T", "Y", "P", "E", " ", "a", " ", "[", "<", "!", "A", "T", "T", "L", "I", "S", "T", " ", "a", " ", "b", " ", "(", "x", ",", "y", ")", " ", "\"", "x", "\"", ">", "]", ">">>}

Bodies ==
    {<<"<", "a", "/", ">">>,
     <<"<", "a", " ", "b", "=", "\"", "c", "\"", ">", "t", " ", "1", "<", "/", "a", ">">>,
     <<"<", "a", ":", "b", ">", "<", "!", "[", "C", "D", "A", "T", "A", "[", "x", "]", "]", ">", "<", "/", "a", ":", "b", ">">>,
     <<"<", "a", ">", " ", "<", "!", "-", "-", "c">>,
     <<"<", "a", " ", "b", "=", "'", "c">>}

Sources == {p \o b : p \in Prologs, b \in Bodies}

\* new XmlLexer(source) or new HtmlLexer(source), by the mode of the parser
Lexer(src) ==
    /\ source = <<>>
    /\ source' = src
    /\ UNCHANGED <<currentIndex, startIndex, line, column, atError, errors, vFlag, token,
                   lexing>>
    /\ UNCHANGED <<parserVars, xpathVars, domVars, nameVars>>

\* the fields of the lexer
Fields(lx) ==
    /\ currentIndex' = lx.cur
    /\ startIndex' = lx.start
    /\ line' = lx.line
    /\ column' = lx.col
    /\ atError' = lx.atError
    /\ errors' = lx.errors
    /\ vFlag' = lx.vFlag

\* the fields of the lexer after a call, and the token the call returned; a
\* call that met a loop that never ends returns nothing: it is at the test
\* of that loop, with the fields of the lexer as they are there
Returns(lx) ==
    IF lx.spin.loop = ""
    THEN Fields(lx) /\ token' = lx.ret /\ UNCHANGED lexing
    ELSE Fields(lx.spin.at) /\ lexing' = [loop |-> lx.spin.loop, at |-> "while"]
         /\ UNCHANGED token

GetToken ==
    /\ source # <<>>
    /\ lexing.loop = ""
    /\ Returns(getToken(ThisLexer))
    /\ UNCHANGED <<source, parserVars, xpathVars, domVars, nameVars>>

\* while (this.peek() !== ")" && !this.atEnd()) of mixed and of enumeration,
\* in a call that is inside the loop: the test holds, the body is next
whileTest ==
    /\ lexing.at = "while"
    /\ peek(ThisLexer, 0) # ")" /\ ~atEnd(ThisLexer)
    /\ lexing' = [lexing EXCEPT !.at = "body"]
    /\ UNCHANGED <<source, currentIndex, startIndex, line, column, atError, errors, vFlag,
                   token>>
    /\ UNCHANGED <<parserVars, xpathVars, domVars, nameVars>>

\* the body of that loop, and back to its test
whileBody ==
    /\ lexing.at = "body"
    /\ Fields(IF lexing.loop = "mixed" THEN mixedBody(ThisLexer)
              ELSE enumerationBody(ThisLexer))
    /\ lexing' = [lexing EXCEPT !.at = "while"]
    /\ UNCHANGED <<source, token, parserVars, xpathVars, domVars, nameVars>>

\* C10: when the lexer has met an error, the token that getToken returned,
\* in the call that met the error and in every later call (a later call
\* leaves the lexer as it is and returns the same token again), is a token of
\* kind error: the error token stored first, with its message, line and
\* column.
C10_ErrorTokenIsSticky ==
    atError => token.type = "TokenError" /\ token = errors[1]

Next == parse

NextQuery ==
    \/ parse
    \/ \E q \in Queries : Query(q)

vars == <<nodes, stack, pos, mode, pc, rootElement, isRootElementClosed,
          dataStack, ctxStack, lastQuery, lastOut, nq,
          source, currentIndex, startIndex, line, column, atError, errors, vFlag, token,
          lexing, config, phase, currentScope, warnings, uniqueNames, namespacedAttributes,
          elems, openElems, isWellFormed, dom>>

Spec == Init /\ [][Next]_vars

\* the parser, then queries on one XPath object for the parsed document
SpecQuery == Init /\ [][NextQuery]_vars

NextLexer ==
    \/ \E src \in Sources : Lexer(src)
    \/ GetToken
    \/ whileTest
    \/ whileBody

\* a lexer on one of the sources, and its getToken() calls
SpecLexer == Init /\ [][NextLexer]_vars

\* the same, with the lexer's loops run on: a call that is inside a loop
\* of the lexer goes on executing it, test after body after test
SpecLexerRun == Init /\ [][NextLexer]_vars /\ WF_vars(whileTest) /\ WF_vars(whileBody)

\* C11: for every source, in XML and in HTML mode, every call of getToken()
\* that parse() makes comes back, with a token or an error token that makes
\* parse() throw: a call that has entered a loop of the lexer (the loop of
\* mixed for "(#PCDATA ...)", the loop of enumeration for an ATTLIST
\* enumeration) leaves that loop again.
C11_EveryCallReturns == (lexing.loop # "") ~> (lexing.loop = "")

\* ------------------------------------------------------------------------
\* The parser on qualified names: namespace scopes, warnings, end tags.
\* Names, values and texts are sequences of characters (a URI: of pieces).
\* ------------------------------------------------------------------------
XmlPrefix == <<"x", "m", "l">>
XmlnsPrefix == <<"x", "m", "l", "n", "s">>
XmlnsName == XmlnsPrefix
XmlUri == <<"http://www.w3.org/XML/1998/namespace">>
XmlnsUri == <<"http://www.w3.org/2000/xmlns/">>
XhtmlUri == <<"http://www.w3.org/1999/xhtml">>
ReservedXmlPrefixes == <<XmlPrefix, XmlnsPrefix>>
ReservedXmlUris == <<XmlUri, XmlnsUri>>

\* String.startsWith
startsWith(chars, sub) == Len(chars) >= Len(sub) /\ SubSeq(chars, 1, Len(sub)) = sub

\* parent: the element that carries the declaration (Null: the root)
NamespaceNode(prefix, uri, isDefault, isGlobal, parent) ==
    [prefix |-> prefix, uri |-> uri, isDefault |-> isDefault, isGlobal |-> isGlobal,
     parent |-> parent]

\* undefined, where a namespace node is expected
NoNamespace == NamespaceNode(<<>>, <<>>, FALSE, FALSE, DefaultPos)

\* NamespaceScopeTable: table.symbols is the last table, its enclosingScope
\* the one before it
has(scope, key) == key \in DOMAIN scope[Len(scope)]

insert(scope, key, node) ==
    IF has(scope, key) THEN scope
    ELSE [scope EXCEPT ![Len(scope)] = (key :> node) @@ @]

RECURSIVE lookupFrom(_, _, _)
lookupFrom(scope, k, key) ==
    IF k = 0 THEN NoNamespace
    ELSE IF key \in DOMAIN scope[k] THEN scope[k][key]
    ELSE lookupFrom(scope, k - 1, key)

lookup(scope, key) == lookupFrom(scope, Len(scope), key)

\* the scope table of an HtmlParser is disabled
newScope(scope) == IF mode = "HTML" THEN scope ELSE Append(scope, <<>>)

\* a table that is never left again
backtrackScopeKept(scope) == scope

backtrackScope(scope) ==
    IF mode = "HTML" \/ Len(scope) = 1 THEN scope
    ELSE SubSeq(scope, 1, Len(scope) - 1)

RECURSIVE createGlobals(_, _)
createGlobals(scope, i) ==
    IF i > Len(ReservedXmlPrefixes) THEN scope
    ELSE createGlobals(
             insert(scope, ReservedXmlPrefixes[i],
                    NamespaceNode(ReservedXmlPrefixes[i], ReservedXmlUris[i], FALSE, TRUE, Null)),
             i + 1)

\* the name parseName builds from a name token, and from the name token
\* after a colon when there is one (second is <<>> when there is none)
RName(first, second) ==
    IF second = <<>> THEN [pname |-> <<>>, lname |-> first, qname |-> first]
    ELSE [pname |-> first, lname |-> second, qname |-> first \o <<":">> \o second]

prefixWarning(name) ==
    /\ name.pname # <<>>
    /\ name.pname # XmlnsName
    /\ Len(name.pname) > Len(XmlPrefix)
    /\ startsWith(toLowerCase(name.pname), XmlPrefix)

localWarning(name) ==
    /\ name.pname # <<>>
    /\ Len(name.lname) > Len(XmlPrefix)
    /\ startsWith(toLowerCase(name.lname), XmlPrefix)

\* the calls of warn() in parseName
nameWarnings(name) ==
    (IF prefixWarning(name) THEN 1 ELSE 0) + (IF localWarning(name) THEN 1 ELSE 0)

ElementNode(name, parent) ==
    [name |-> name, namespace |-> NoNamespace, isNamespaced |-> FALSE, parent |-> parent,
     namespaces |-> <<>>, attributes |-> {}, children |-> <<>>]

\* the element whose start tag is being read, and the top of the stack
thisElem == Len(elems)
getParent == IF openElems = <<>> THEN Null ELSE openElems[Len(openElems)]

\* this.error(...): parse() throws
error ==
    /\ phase' = "error"
    /\ UNCHANGED <<config, currentScope, warnings, uniqueNames, namespacedAttributes, elems,
                   openElems, isWellFormed>>

\* the bounds of the documents read
MaxElems == 3
MaxItems == 2
MaxWarnings == 2

\* new XmlParser(lexer, cfg) or new HtmlParser(lexer, cfg), and the start of
\* parse(): createRoot
XmlParser(cfg) ==
    /\ phase = "new"
    /\ config' = cfg
    /\ currentScope' = IF mode = "XML" THEN createGlobals(currentScope, 1) ELSE currentScope
    /\ phase' = "content"
    /\ UNCHANGED <<warnings, uniqueNames, namespacedAttributes, elems, openElems, isWellFormed>>
    /\ UNCHANGED <<parserVars, xpathVars, domVars, lexerVars>>

\* parseElement, to the end of the element's name
parseElement(first, second) ==
    /\ phase = "content"
    /\ Len(elems) < MaxElems
    /\ IF RName(first, second).pname = XmlnsPrefix
       THEN error
       ELSE /\ currentScope' = newScope(currentScope)
            /\ warnings' = warnings + nameWarnings(RName(first, second))
            /\ elems' = Append(elems, ElementNode(RName(first, second), getParent))
            /\ phase' = "tag"
            /\ UNCHANGED <<config, uniqueNames, namespacedAttributes, openElems, isWellFormed>>
    /\ UNCHANGED <<parserVars, xpathVars, domVars, lexerVars>>

\* the constraints 1a to 1c and 3 of XmlParser.parseNamespace
namespaceError(name, uri) ==
    \/ IF name.lname = XmlPrefix THEN uri # XmlUri ELSE uri = XmlUri
    \/ IF name.lname = XmlnsPrefix /\ name.lname # name.qname THEN TRUE ELSE uri = XmlnsUri
    \/ name.lname # <<>> /\ uri = <<>>

\* XmlParser.parseNamespace, after the checks: the node is entered in the
\* current table under its prefix, and a default one under xmlns as well
declare(name, node) ==
    IF has(currentScope, node.prefix)
    THEN error
    ELSE /\ currentScope' =
                insert(insert(currentScope, node.prefix, node),
                       IF node.prefix = <<>> THEN XmlnsName ELSE node.prefix, node)
         /\ warnings' = warnings + nameWarnings(name)
         /\ elems' = [elems EXCEPT ![thisElem].namespaces = Append(@, node)]
         /\ UNCHANGED <<config, phase, uniqueNames, namespacedAttributes, openElems,
                        isWellFormed>>

parseNamespace(name, uri) ==
    IF mode = "HTML"
    THEN (IF uri # XhtmlUri THEN error
          ELSE /\ elems' = [elems EXCEPT ![thisElem].namespaces =
                               Append(@, NamespaceNode(<<>>, uri, TRUE, FALSE, thisElem))]
               /\ warnings' = warnings + nameWarnings(name)
               /\ UNCHANGED <<config, phase, currentScope, uniqueNames,
                              namespacedAttributes, openElems, isWellFormed>>)
    ELSE IF namespaceError(name, uri) THEN error
    ELSE declare(name, NamespaceNode(IF name.lname = XmlnsName THEN <<>> ELSE name.lname,
                                     uri, name.lname = XmlnsName, FALSE, thisElem))

\* parseAttribute for an attribute that declares no namespace; an
\* HtmlParser does not collect the prefixed ones. ElementNode.attributes maps
\* a qualified name to the attribute of that name: the set of their names
attribute(name) ==
    /\ elems' = [elems EXCEPT ![thisElem].attributes = @ \cup {name}]
    /\ warnings' = warnings + nameWarnings(name)
    /\ namespacedAttributes' =
           IF mode = "XML" /\ name.pname # <<>> THEN Append(namespacedAttributes, name)
           ELSE namespacedAttributes
    /\ UNCHANGED <<config, phase, currentScope, uniqueNames, openElems, isWellFormed>>

\* one turn of the attribute loop of parseElement
parseAttribute(first, second, value) ==
    /\ phase = "tag"
    /\ Len(elems[thisElem].namespaces) + Cardinality(elems[thisElem].attributes) < MaxItems
    /\ Len(namespacedAttributes) < MaxItems
    /\ IF first = XmlnsPrefix THEN parseNamespace(RName(first, second), trim(value))
       ELSE attribute(RName(first, second))
    /\ UNCHANGED <<parserVars, xpathVars, domVars, lexerVars>>

\* the first part of XmlParser.resolveNamespaces: the element's own name
resolveElement(elem) ==
    IF elem.name.pname # <<>>
    THEN (IF lookup(currentScope, elem.name.pname) = NoNamespace
          THEN elem
          ELSE [elem EXCEPT !.namespace = lookup(currentScope, elem.name.pname),
                            !.isNamespaced = TRUE])
    ELSE IF config.allowDefaultNamespaceBindings
            /\ lookup(currentScope, XmlnsPrefix).isDefault
    THEN [elem EXCEPT !.namespace = lookup(currentScope, XmlnsPrefix),
                      !.isNamespaced = TRUE]
    ELSE elem

\* the expanded name of the k-th of namespacedAttributes
expandedName(k) ==
    trim(lookup(currentScope, namespacedAttributes[k].pname).uri)
        \o <<":">> \o namespacedAttributes[k].lname

RECURSIVE resolveAttributes(_, _)
\* its loop over namespacedAttributes, from the k-th, with uniqueNames as it
\* stands: how the loop ends, and uniqueNames then
resolveAttributes(k, names) ==
    IF k > Len(namespacedAttributes) THEN [out |-> "end", uniqueNames |-> names]
    ELSE IF lookup(currentScope, namespacedAttributes[k].pname) = NoNamespace
    THEN [out |-> IF config.allowMissingNamespaces THEN "return" ELSE "error",
          uniqueNames |-> names]
    ELSE IF ~config.ensureUniqueNamespacedAttributes THEN resolveAttributes(k + 1, names)
    ELSE IF expandedName(k) \in names THEN [out |-> "error", uniqueNames |-> names]
    ELSE resolveAttributes(k + 1, names \cup {expandedName(k)})

\* XmlParser.resolveNamespaces on the element read: how it ends ("end",
\* "return" for the early return of allowMissingNamespaces, or "error")
resolveNamespaces ==
    IF mode = "HTML" THEN [out |-> "html", uniqueNames |-> uniqueNames]
    ELSE IF elems[thisElem].name.pname # <<>>
            /\ lookup(currentScope, elems[thisElem].name.pname) = NoNamespace
    THEN [out |-> IF config.allowMissingNamespaces THEN "return" ELSE "error",
          uniqueNames |-> uniqueNames]
    ELSE resolveAttributes(1, uniqueNames)

\* what resolveNamespaces leaves in the parser and in the element
resolved(r) ==
    /\ elems' = IF r.out = "html" THEN elems
                ELSE [elems EXCEPT ![thisElem] = resolveElement(@)]
    /\ namespacedAttributes' = IF r.out = "end" THEN <<>> ELSE namespacedAttributes
    /\ uniqueNames' = IF r.out = "end" THEN {} ELSE r.uniqueNames

\* the rest of parseElement after the attributes: resolveNamespaces, and
\* handleContent to the end of the start tag ("/>" or ">")
handleContent(isSelfEnclosing, r) ==
    /\ phase = "tag"
    /\ IF r.out = "error" THEN error
       ELSE IF isSelfEnclosing
       THEN (IF thisElem # 1 /\ elems[thisElem].parent = Null THEN error
             ELSE /\ resolved(r)
                  /\ currentScope' = backtrackScope(currentScope)
                  /\ phase' = "content"
                  /\ UNCHANGED <<config, warnings, openElems, isWellFormed>>)
       ELSE /\ resolved(r)
            /\ openElems' = Append(openElems, thisElem)
            /\ phase' = "content"
            /\ UNCHANGED <<config, currentScope, warnings, isWellFormed>>
    /\ UNCHANGED <<parserVars, xpathVars, domVars, lexerVars>>

\* the end tag in handleContent, and the end of parseElement
closingTag(first, second) ==
    /\ phase = "content"
    /\ openElems # <<>>
    /\ IF RName(first, second).qname # elems[getParent].name.qname
          \/ (getParent # 1 /\ elems[getParent].parent = Null)
       THEN error
       ELSE /\ warnings' = warnings + nameWarnings(RName(first, second))
            /\ openElems' = SubSeq(openElems, 1, Len(openElems) - 1)
            /\ currentScope' = backtrackScope(currentScope)
            /\ UNCHANGED <<config, phase, uniqueNames, namespacedAttributes, elems,
                           isWellFormed>>
    /\ UNCHANGED <<parserVars, xpathVars, domVars, lexerVars>>

\* parseText for a text of the document; outside every element (misc called
\* by miscS) it is expected to be whitespace only
parseText(value) ==
    /\ phase = "content"
    /\ warnings < MaxWarnings
    /\ warnings' = IF openElems = <<>> /\ trim(value) # <<>> THEN warnings + 1 ELSE warnings
    /\ UNCHANGED <<config, phase, currentScope, uniqueNames, namespacedAttributes, elems,
                   openElems, isWellFormed>>
    /\ UNCHANGED <<parserVars, xpathVars, domVars, lexerVars>>

\* the end of parseDocument: the end of the source is consumed
parseDocument ==
    /\ phase = "content"
    /\ IF openElems # <<>> THEN error
       ELSE /\ isWellFormed' = (warnings = 0)
            /\ phase' = "done"
            /\ UNCHANGED <<config, currentScope, warnings, uniqueNames, namespacedAttributes,
                           elems, openElems>>
    /\ UNCHANGED <<parserVars, xpathVars, domVars, lexerVars>>

\* the names and attributes of the documents read: a name is a name token
\* and the name token after a colon (<<>>: none); the prefix z is declared
\* nowhere
ElementNames ==
    {<< <<"a">>, <<>> >>, << <<"p">>, <<"a">> >>, << <<"z">>, <<"a">> >>}

Attributes ==
    {<< XmlnsPrefix, <<"p">>, <<"u">> >>, << XmlnsPrefix, <<"q">>, <<"u", " ">> >>,
     << <<"p">>, <<"a">>, <<"1">> >>, << <<"q">>, <<"a">>, <<"2">> >>}

Configs ==
    [showWarnings : {TRUE}, allowMissingNamespaces : BOOLEAN,
     allowDefaultNamespaceBindings : {TRUE}, ensureUniqueNamespacedAttributes : BOOLEAN]

\* an HtmlLexer reads a colon as a part of a name: no name has a prefix
NextNames ==
    \/ \E cfg \in Configs : XmlParser(cfg)
    \/ \E n \in ElementNames : (mode = "XML" \/ n[2] = <<>>) /\ parseElement(n[1], n[2])
    \/ \E a \in Attributes : (mode = "XML" \/ a[2] = <<>>) /\ parseAttribute(a[1], a[2], a[3])
    \/ \E b \in BOOLEAN : handleContent(b, resolveNamespaces)
    \/ \E n \in ElementNames : (mode = "XML" \/ n[2] = <<>>) /\ closingTag(n[1], n[2])
    \/ parseDocument

\* a parser on a document of elements with qualified names
SpecNames == Init /\ [][NextNames]_vars

RECURSIVE AncestorsOrSelf(_)
AncestorsOrSelf(e) == IF e = Null THEN {} ELSE {e} \cup AncestorsOrSelf(elems[e].parent)

Declarations(e) == {elems[e].namespaces[i] : i \in 1..Len(elems[e].namespaces)}

\* the reserved binding of the prefix xml, made by createRoot
XmlBinding == NamespaceNode(XmlPrefix, XmlUri, FALSE, TRUE, Null)

\* C12: in XML mode with allowMissingNamespaces off, after a successful
\* parse every element whose name has a prefix is bound to a namespace node
\* of that prefix that is one of the declarations of the element itself or
\* of one of its ancestors, or is the reserved binding of xml: never to a
\* declaration of a sibling or of a descendant.
C12_PrefixBoundInScope ==
    (mode = "XML" /\ ~config.allowMissingNamespaces /\ phase = "done") =>
        \A e \in 1..Len(elems) :
            elems[e].name.pname # <<>> =>
                /\ elems[e].namespace.prefix = elems[e].name.pname
                /\ \/ elems[e].namespace = XmlBinding
                   \/ \E o \in AncestorsOrSelf(e) : elems[e].namespace \in Declarations(o)

\* a successful parse in which an element with a prefix follows an element,
\* not among its ancestors, that declares the same prefix
C12_Witness ==
    /\ mode = "XML" /\ ~config.allowMissingNamespaces /\ phase = "done"
    /\ \E e \in 1..Len(elems) : \E s \in 1..Len(elems) :
           /\ s < e /\ s \notin AncestorsOrSelf(e)
           /\ elems[e].name.pname # <<>>
           /\ \E d \in Declarations(s) : d.prefix = elems[e].name.pname

RECURSIVE Declared(_, _)
\* the declaration of a prefix that is in scope at the element e
Declared(e, prefix) ==
    IF e = Null THEN NoNamespace
    ELSE IF \E d \in Declarations(e) : d.prefix = prefix
    THEN CHOOSE d \in Declarations(e) : d.prefix = prefix
    ELSE Declared(elems[e].parent, prefix)

\* namespace URI + local name, of an attribute of the element e
ExpandedNameOf(e, name) == <<trim(Declared(e, name.pname).uri), name.lname>>

\* C13: in XML mode with ensureUniqueNamespacedAttributes on, parsing does
\* not get past an element that carries two prefixed attributes whose
\* expanded names (namespace URI + local name) are equal, whether or not
\* their prefixes differ: no element whose start tag was read has two such
\* attributes.
C13_EqualExpandedNamesRejected ==
    (mode = "XML" /\ config.ensureUniqueNamespacedAttributes
        /\ phase \in {"content", "done"}) =>
        \A e \in 1..Len(elems) : \A a1, a2 \in elems[e].attributes :
            (/\ a1 # a2
             /\ a1.pname # <<>> /\ Declared(e, a1.pname) # NoNamespace
             /\ a2.pname # <<>> /\ Declared(e, a2.pname) # NoNamespace)
            => ExpandedNameOf(e, a1) # ExpandedNameOf(e, a2)

\* the names, attributes and texts of the documents read for their warnings
WarningNames ==
    {<< <<"a">>, <<>> >>, << <<"X", "m", "l">>, <<"a">> >>,
     << <<"x", "m", "l", "p">>, <<"a">> >>}

WarningAttributes ==
    {<< XmlnsPrefix, <<"X", "m", "l">>, <<"u">> >>,
     << XmlnsPrefix, <<"x", "m", "l", "p">>, <<"u">> >>,
     << <<"X", "m", "l">>, <<"b">>, <<"1">> >>}

Texts == {<<"t">>, <<" ">>}

WarningConfigs ==
    [showWarnings : BOOLEAN, allowMissingNamespaces : {FALSE},
     allowDefaultNamespaceBindings : {TRUE}, ensureUniqueNamespacedAttributes : {TRUE}]

NextWarnings ==
    \/ \E cfg \in WarningConfigs : XmlParser(cfg)
    \/ \E n \in WarningNames : (mode = "XML" \/ n[2] = <<>>) /\ parseElement(n[1], n[2])
    \/ \E a \in WarningAttributes :
           (mode = "XML" \/ a[2] = <<>>) /\ parseAttribute(a[1], a[2], a[3])
    \/ \E b \in BOOLEAN : handleContent(b, resolveNamespaces)
    \/ \E n \in WarningNames : (mode = "XML" \/ n[2] = <<>>) /\ closingTag(n[1], n[2])
    \/ \E t \in Texts : parseText(t)
    \/ parseDocument

\* a parser on a document with names that begin with xml, and with texts
SpecWarnings == Init /\ [][NextWarnings]_vars

\* a prefix that begins with xml in some letter case and is neither xml nor
\* xmlns
ReservedPrefix(chars) ==
    startsWith(toLowerCase(chars), XmlPrefix) /\ chars \notin {XmlPrefix, XmlnsPrefix}

\* C14: after a successful parse root.isWellFormed is true only if no
\* warning condition occurred in it, whatever showWarnings is; one of the
\* conditions: when an element or an attribute of the document has a prefix
\* that begins with xml in any letter case, other than exactly xml or
\* xmlns, isWellFormed is false.
C14_ReservedPrefixNotWellFormed ==
    phase = "done" =>
        ((\E e \in 1..Len(elems) :
             \/ ReservedPrefix(elems[e].name.pname)
             \/ \E a \in elems[e].attributes : ReservedPrefix(a.pname))
         => ~isWellFormed)

\* ------------------------------------------------------------------------
\* The parser on the tokens of its lexer: advance, and the content of a
\* script element
\* ------------------------------------------------------------------------
\* this.error(tok): parse() throws and the parser does not go on; token
\* keeps the token that was handed to error
throws(lx, tok) ==
    /\ Fields(lx)
    /\ token' = tok
    /\ phase' = "error"
    /\ UNCHANGED <<lexing, config, currentScope, warnings, uniqueNames,
                   namespacedAttributes, elems, openElems, isWellFormed>>

\* the token types at which advance throws
failsAdvance(tok, failOnError) ==
    (tok.type = "TokenError" /\ failOnError) \/ tok.type = "TokenUnknown"

\* XmlParser.advance(failOnError), with the lexer as getToken() leaves it;
\* token is currentToken
advanced(lx, failOnError) ==
    IF lx.spin.loop = "" /\ failsAdvance(lx.ret, failOnError) THEN throws(lx, lx.ret)
    ELSE /\ Returns(lx)
         /\ UNCHANGED nameVars

\* every call of advance in XmlParser and in HtmlParser leaves failOnError at
\* its default, true
advance ==
    /\ source # <<>>
    /\ phase # "error"
    /\ lexing.loop = ""
    /\ advanced(getToken(ThisLexer), TRUE)
    /\ UNCHANGED <<source, parserVars, xpathVars, domVars>>

RECURSIVE untilStr(_, _)
\* the while loop of createSyntheticToken
untilStr(lx, str) ==
    IF ~atEnd(lx) /\ slice(lx.cur, lx.cur + Len(str)) # str THEN untilStr(move(lx), str)
    ELSE lx

RECURSIVE indexOf(_, _, _)
\* String.indexOf, searching from the k-th character (counted from 0)
indexOf(chars, c, k) ==
    IF k >= Len(chars) THEN -1
    ELSE IF chars[k + 1] = c THEN k
    ELSE indexOf(chars, c, k + 1)

\* the value createSyntheticToken leaves in its token
syntheticValue(value) ==
    IF startsWith(trim(value), <<">">>)
    THEN SubSeq(value, indexOf(value, ">", 0) + 2, Len(value))
    ELSE value

syntheticToken(lx, str, type) ==
    [newTokenTo(lx, type, "", lx.cur - Len(str)) EXCEPT !.ret.value = syntheticValue(@)]

\* Lexer.createSyntheticToken(str, type)
createSyntheticToken(lx, str, type) ==
    IF atEnd(untilStr(lx, str)) THEN errorToken(untilStr(lx, str), "Could not create token")
    ELSE syntheticToken([moveN(untilStr(lx, str), Len(str)) EXCEPT !.vFlag = ""], str, type)

scriptName == <<"s", "c", "r", "i", "p", "t">>

\* how the do-while loop of the script branch of HtmlParser.handleContent
\* ends: by its break ("break", text: the value of the synthetic token),
\* by its test ("end"), or by a throw of advance; cur is currentToken
RECURSIVE scriptLoop(_, _)
scriptAdvanced(syn, adv) ==
    IF failsAdvance(adv.ret, TRUE) THEN [lx |-> adv, cur |-> adv.ret, out |-> "throw", text |-> <<>>]
    ELSE IF adv.ret.type = "TokenName" /\ adv.ret.value = scriptName
    THEN [lx |-> adv, cur |-> adv.ret, out |-> "break", text |-> syn.ret.value]
    ELSE IF adv.ret.type = "TokenEof"
    THEN [lx |-> adv, cur |-> adv.ret, out |-> "end", text |-> <<>>]
    ELSE scriptLoop(adv, adv.ret)

scriptSynthetic(syn, cur) ==
    IF syn.ret.type # "TokenFSlash" THEN [lx |-> syn, cur |-> cur, out |-> "end", text |-> <<>>]
    ELSE scriptAdvanced(syn, getToken(syn))

scriptLoop(lx, cur) ==
    scriptSynthetic(createSyntheticToken(lx, <<"<", "/">>, "TokenFSlash"), cur)

thrown(lx, tok) == [thrown |-> TRUE, lx |-> lx, tok |-> tok]

\* the advance of consume(TokenGThan) at the end of the end tag
scriptClosed(closed) ==
    IF failsAdvance(closed.ret, TRUE) THEN thrown(closed, closed.ret)
    ELSE [thrown |-> FALSE, lx |-> closed, tok |-> closed.ret]

\* parseName of the end tag, the test of its qualified name and
\* consume(TokenGThan): cur is currentToken, lx the lexer after the advance
\* of match(TokenName)
scriptEndName(cur, before, lx) ==
    IF cur.type # "TokenName" THEN thrown(before, cur)
    ELSE IF failsAdvance(lx.ret, TRUE) THEN thrown(lx, lx.ret)
    ELSE IF cur.value # scriptName \/ lx.ret.type # "TokenGThan" THEN thrown(lx, lx.ret)
    ELSE scriptClosed(getToken(lx))

\* the advance of consume(TokenFSlash)
scriptSlash(lx) ==
    IF failsAdvance(lx.ret, TRUE) THEN thrown(lx, lx.ret)
    ELSE scriptEndName(lx.ret, lx, getToken(lx))

\* `skipFSlash ? void 0 : this.consume(TokenFSlash)`, then the end tag
scriptEndTag(r) ==
    IF r.out = "throw" THEN thrown(r.lx, r.cur)
    ELSE IF r.out = "break" THEN scriptEndName(r.cur, r.lx, getToken(r.lx))
    ELSE IF r.cur.type = "TokenFSlash" THEN scriptSlash(getToken(r.lx))
    ELSE thrown(r.lx, r.cur)

\* TextNode children of the script element
scriptChildren(r) == IF r.out = "break" /\ trim(r.text) # <<>> THEN <<r.text>> ELSE <<>>

scriptParsed(r, ended) ==
    IF ended.thrown
    THEN throws(ended.lx, ended.tok)
    ELSE /\ Fields(ended.lx)
         /\ token' = ended.tok
         /\ elems' = Append(elems, [ElementNode(RName(scriptName, <<>>), getParent)
                                       EXCEPT !.children = scriptChildren(r)])
         /\ UNCHANGED <<lexing, config, phase, currentScope, warnings, uniqueNames,
                        namespacedAttributes, openElems, isWellFormed>>

scriptContentOf(r) == scriptParsed(r, scriptEndTag(r))

\* HtmlParser.handleContent for a script element whose start tag "<script>"
\* has just been read: currentToken is its ">"
scriptContent ==
    /\ mode = "HTML"
    /\ phase # "error"
    /\ token.type = "TokenGThan"
    /\ currentIndex >= 8
    /\ slice(currentIndex - 8, currentIndex) = <<"<">> \o scriptName \o <<">">>
    /\ scriptContentOf(scriptLoop(ThisLexer, token))
    /\ UNCHANGED <<source, parserVars, xpathVars, domVars>>

TokenSources ==
    {<<"<", "s", "c", "r", "i", "p", "t", ">", "<", "/", "s", "c", "r", "i", "p", "t", ">">>,
     <<"<", "s", "c", "r", "i", "p", "t", ">", " ", "<", "/", "s", "c", "r", "i", "p", "t", ">">>,
     <<"<", "s", "c", "r", "i", "p", "t", ">", "a", "<", "/", "s", "c", "r", "i", "p", "t", ">", "x">>,
     <<"<", "s", "c", "r", "i", "p", "t", ">", "a", "<", "b", "<", "/", "s", "c", "r", "i", "p", "t", ">">>,
     <<"<", "s", "c", "r", "i", "p", "t", ">", "a", "<", "/", "b", ">", "c", "<", "/", "s", "c", "r", "i", "p", "t", ">">>,
     <<"<", "s", "c", "r", "i", "p", "t", ">", "a", "=", "\"", "<", "/", "\"", ";", "<", "/", "s", "c", "r", "i", "p", "t", ">">>,
     <<"<", "s", "c", "r", "i", "p", "t", ">", "a", "<", "/", " ", "b", "<", "/", "s", "c", "r", "i", "p", "t", ">">>,
     <<"<", "s", "c", "r", "i", "p", "t", ">", "a">>,
     <<"<", "s", "c", "r", "i", "p", "t", ">", "a", "<", "/", "b", ">">>,
     <<"<", "s", "c", "r", "i", "p", "t", ">", "a", "<", "/", "s", "c", "r", "i", "p", "t">>,
     <<"<", "a", " ", "b", "=", "'", "c">>,
     <<"<", "a", ">", " ", "<", "!", "-", "-", "c">>,
     <<"<", "a", ":", "b", "/", ">", "t">>,
     <<"<", "s", "c", "r", "i", "p", "t", ">", "a", "<", "/", "<", "/", "s", "c", "r", "i", "p", "t", ">">>}

NextTokens ==
    \/ \E src \in TokenSources : Lexer(src)
    \/ advance
    \/ scriptContent

\* a parser that reads the tokens of one of the sources
SpecTokens == Init /\ [][NextTokens]_vars

\* C15: in HTML mode a tokenization problem other than an end tag that
\* does not match is tolerated: an error token of the lexer does not make
\* parse() throw.
C15_HtmlToleratesLexerErrors ==
    (mode = "HTML" /\ token.type = "TokenError") => phase # "error"

RECURSIVE indexOfSub(_, _)
\* the index in the source of the first occurrence of sub at or after k
indexOfSub(sub, k) ==
    IF k >= Len(source) THEN Len(source)
    ELSE IF slice(k, k + Len(sub)) = sub THEN k
    ELSE indexOfSub(sub, k + 1)

\* the text between the ">" of the start tag "<script>" that begins the
\* source and the first "</script" after it
ScriptText == slice(8, indexOfSub(<<"<", "/">> \o scriptName, 8))

\* C16: in HTML mode a script element that was parsed has exactly one
\* child, a text whose value is the entire text between the ">" of its
\* start tag and the first following "</script", when that text has a
\* character that is not whitespace, and no child otherwise.
C16_ScriptTextIsWholeBody ==
    \A e \in 1..Len(elems) :
        elems[e].name.qname = scriptName =>
            elems[e].children = IF trim(ScriptText) # <<>> THEN <<ScriptText>> ELSE <<>>

\* ------------------------------------------------------------------------
\* XPath: calls of core functions and comparisons, on data that are not
\* taken from a document. Strings are sequences of characters here.
\* ------------------------------------------------------------------------
\* Map.get of the map that replace builds from the first stopIndex
\* characters of placeholder, from the i-th on (counted from 0): the first
\* occurrence of ch sets its entry. The result is a string of one
\* character, and the empty string when ch has no entry (undefined).
RECURSIVE mapGet(_, _, _, _, _)
mapGet(placeholder, replacement, stopIndex, ch, i) ==
    IF i >= stopIndex THEN <<>>
    ELSE IF placeholder[i + 1] = ch THEN <<replacement[i + 1]>>
    ELSE mapGet(placeholder, replacement, stopIndex, ch, i + 1)

RECURSIVE replace(_, _, _, _)
\* the replace function of translateFn: `map.get(ch) || ch` for every ch
replace(original, placeholder, replacement, stopIndex) ==
    IF original = <<>> THEN <<>>
    ELSE LET found == mapGet(placeholder, replacement, stopIndex, Head(original), 0)
         IN (IF found = <<>> THEN <<Head(original)>> ELSE found)
                \o replace(Tail(original), placeholder, replacement, stopIndex)

\* String.includes for one character
includes(chars, ch) == \E i \in 1..Len(chars) : chars[i] = ch

\* translateFn on the strings of its three arguments
translateFn(original, placeholder, replacement) ==
    IF Len(placeholder) = Len(replacement)
    THEN replace(original, placeholder, replacement, Len(replacement))
    ELSE IF Len(placeholder) > Len(replacement)
    THEN LET outcasts == SubSeq(placeholder, Len(replacement) + 1, Len(placeholder))
             newOriginal == SelectSeq(original, LAMBDA ch : ~includes(outcasts, ch))
         IN replace(newOriginal, placeholder, replacement, Len(replacement))
    ELSE replace(original, placeholder, replacement, Len(placeholder))

\* the longest first and third argument of a translate call; the second
\* argument has up to one character more
MaxChars == 2
TranslateChars == {"a", "b", "X"}

Strings(n) == UNION {[1..k -> TranslateChars] : k \in 0..n}

\* translate(src, from, to) on a new XPath object
translateCall(src, from, to) ==
    /\ nq = 0
    /\ nq' = 1
    /\ lastQuery' = CallNode("translate", <<StringNode(src), StringNode(from), StringNode(to)>>)
    /\ lastOut' = Outcome("", "String", translateFn(src, from, to))
    /\ UNCHANGED <<dataStack, ctxStack, parserVars, lexerVars, nameVars, domVars>>

RECURSIVE firstIndex(_, _, _)
\* the position, counted from 1, of the first occurrence of c in from at or
\* after i; 0 when there is none
firstIndex(from, c, i) ==
    IF i > Len(from) THEN 0
    ELSE IF from[i] = c THEN i
    ELSE firstIndex(from, c, i + 1)

RECURSIVE Translated(_, _, _)
\* src with every character handled by its first occurrence in from
Translated(src, from, to) ==
    IF src = <<>> THEN <<>>
    ELSE LET i == firstIndex(from, Head(src), 1)
         IN (IF i = 0 THEN <<Head(src)>>
             ELSE IF i <= Len(to) THEN <<to[i]>>
             ELSE <<>>) \o Translated(Tail(src), from, to)

IsCall(name) == lastQuery.t = "CallNode" /\ lastQuery.name = name

\* C17: translate(src, from, to) is src with every character c replaced by
\* the character of to at the position of the first occurrence of c in
\* from, deleted when to has no such position, and kept when c does not
\* occur in from; a later occurrence of c in from changes nothing.
C17_TranslateByFirstOccurrence ==
    IsCall("translate") =>
        lastOut = Outcome("", "String",
                          Translated(lastQuery.args[1].value, lastQuery.args[2].value,
                                     lastQuery.args[3].value))

\* the relations of JavaScript on numbers: every one but !== is false when
\* an operand is NaN
numbersRelate(l, r, op) ==
    CASE op = "=" -> l # NaN /\ r # NaN /\ l = r
      [] op = "!=" -> l = NaN \/ r = NaN \/ l # r
      [] op = "<" -> l # NaN /\ r # NaN /\ l < r
      [] op = ">" -> l # NaN /\ r # NaN /\ l > r
      [] op = "<=" -> l # NaN /\ r # NaN /\ l <= r
      [] op = ">=" -> l # NaN /\ r # NaN /\ l >= r

\* evaluateNonNodesetRelativeExpr with number taking precedence over boolean
evaluateNonNodesetRelativeExprNumberFirst(left, right, op) ==
    IF op \in {"=", "!="}
    THEN IF left.cType = "Number" \/ right.cType = "Number"
         THEN numbersRelate(toNumber(left), toNumber(right), op)
         ELSE IF left.cType = "Boolean" \/ right.cType = "Boolean"
         THEN (toBoolean(left) = toBoolean(right)) = (op = "=")
         ELSE (toString(left) = toString(right)) = (op = "=")
    ELSE numbersRelate(toNumber(left), toNumber(right), op)

\* the boolean that evaluateNonNodesetRelativeExpr pushes
evaluateNonNodesetRelativeExpr(left, right, op) ==
    IF op \in {"=", "!="}
    THEN IF left.cType = "Boolean" \/ right.cType = "Boolean"
         THEN (toBoolean(left) = toBoolean(right)) = (op = "=")
         ELSE IF left.cType = "Number" \/ right.cType = "Number"
         THEN numbersRelate(toNumber(left), toNumber(right), op)
         ELSE (toString(left) = toString(right)) = (op = "=")
    ELSE numbersRelate(toNumber(left), toNumber(right), op)

\* the boolean that compare_Nodeset_Boolean pushes: left is the node-set
compare_Nodeset_Boolean(left, right, op) ==
    CASE op = "=" -> toBoolean(left) = right.value
      [] op = "!=" -> toBoolean(left) # right.value
      [] OTHER -> numbersRelate(toNumber(left), toNumber(right), op)

\* the operator compare_Boolean_Nodeset hands on with its operands swapped
swapped(op) ==
    CASE op = "=" -> "="
      [] op = "!=" -> "!="
      [] op = ">" -> "<"
      [] op = "<" -> ">"
      [] op = "<=" -> ">="
      [] op = ">=" -> "<="

compare_Boolean_Nodeset(left, right, op) == compare_Nodeset_Boolean(right, left, swapped(op))

\* evaluateNodesetRelativeExpr, for a node-set and a boolean
evaluateNodesetRelativeExpr(left, right, op) ==
    CASE isNodeset(left) /\ right.cType = "Boolean" -> compare_Nodeset_Boolean(left, right, op)
      [] left.cType = "Boolean" /\ isNodeset(right) -> compare_Boolean_Nodeset(left, right, op)

evaluateRelativeExpr(left, right, op) ==
    IF ~isNodeset(left) /\ ~isNodeset(right)
    THEN evaluateNonNodesetRelativeExpr(left, right, op)
    ELSE evaluateNodesetRelativeExpr(left, right, op)

RelativeOps == {"=", "!=", "<", "<=", ">", ">="}
Booleans == {XData("Boolean", b) : b \in BOOLEAN}
\* the largest number that is an operand
MaxNumber == 2
Numbers == {XData("Number", n) : n \in (0..MaxNumber) \cup {NaN}}
OperandStrings == {<<>>, <<"0">>, <<"1">>, <<"2">>, <<" ">>, <<"a">>, <<"0", "1">>}
StringOperands == {XData("String", str) : str \in OperandStrings}
\* node-sets in document order, every node given by its string-value
Nodesets ==
    {XData("Nodeset", set) :
        set \in {<<>>, <<<<"0">>>>, <<<<"1">>>>, <<<<"2">>>>, <<<<"a">>>>, <<<<>>>>,
                 <<<<"2">>, <<"0">>>>, <<<<"0">>, <<"2">>>>}}

\* the operand pairs of the comparisons: no node-set, or a node-set and a
\* boolean in either order
OperandPairs ==
    ((Booleans \cup Numbers \cup StringOperands) \X (Booleans \cup Numbers \cup StringOperands))
        \cup (Nodesets \X Booleans) \cup (Booleans \X Nodesets)

\* a comparison whose operands have been evaluated to left and right, on a
\* new XPath object
relativeExpr(left, right, op) ==
    /\ nq = 0
    /\ nq' = 1
    /\ lastQuery' = BinaryOpNode(left, right, op)
    /\ lastOut' = Outcome("", "Boolean", evaluateRelativeExpr(left, right, op))
    /\ UNCHANGED <<dataStack, ctxStack, parserVars, lexerVars, nameVars, domVars>>

IsComparison == lastQuery.t = "BinaryOpNode" /\ lastQuery.op \in RelativeOps

BoolAsNumber(b) == IF b THEN 1 ELSE 0

\* the relation between two booleans: equality for = and !=, and the order
\* of 0 and 1 for the others
BooleansRelate(l, r, op) ==
    CASE op = "=" -> l = r
      [] op = "!=" -> l # r
      [] op = "<" -> BoolAsNumber(l) < BoolAsNumber(r)
      [] op = ">" -> BoolAsNumber(l) > BoolAsNumber(r)
      [] op = "<=" -> BoolAsNumber(l) <= BoolAsNumber(r)
      [] op = ">=" -> BoolAsNumber(l) >= BoolAsNumber(r)

\* C18: the comparison of a node-set with a boolean, in either order and by
\* any of the six operators, is the relation between the boolean "the
\* node-set is not empty" and the other boolean; the value of the first
\* node of the set has no part in it.
C18_NodesetComparedAsBoolean ==
    (IsComparison /\ (isNodeset(lastQuery.leftNode) \/ isNodeset(lastQuery.rightNode))) =>
        lastOut = Outcome("", "Boolean",
                          BooleansRelate(toBoolean(lastQuery.leftNode),
                                         toBoolean(lastQuery.rightNode), lastQuery.op))

\* C19: when no operand is a node-set, = and != compare the operands as
\* booleans when one of them is a boolean, else as numbers when one of them
\* is a number, else as strings; <, <=, > and >= compare them as numbers.
C19_NonNodesetCoercions ==
    (IsComparison /\ ~isNodeset(lastQuery.leftNode) /\ ~isNodeset(lastQuery.rightNode)) =>
        LET l == lastQuery.leftNode
            r == lastQuery.rightNode
            op == lastQuery.op
            types == {l.cType, r.cType}
        IN lastOut.err = "" /\ lastOut.cType = "Boolean" /\ lastOut.value =
               IF op \in {"<", "<=", ">", ">="} \/ ("Boolean" \notin types /\ "Number" \in types)
               THEN numbersRelate(toNumber(l), toNumber(r), op)
               ELSE IF "Boolean" \in types
               THEN BooleansRelate(toBoolean(l), toBoolean(r), op)
               ELSE IF op = "=" THEN toString(l) = toString(r) ELSE toString(l) # toString(r)

\* 2 = true() is true: the number is compared as a boolean, not the
\* boolean as a number
C19_Witness ==
    /\ IsComparison
    /\ lastQuery.leftNode = XData("Number", 2)
    /\ lastQuery.rightNode = XData("Boolean", TRUE)
    /\ lastQuery.op = "="
    /\ lastOut = Outcome("", "Boolean", TRUE)

NextCalls ==
    \/ \E src \in Strings(MaxChars), from \in Strings(MaxChars + 1), to \in Strings(MaxChars) :
           translateCall(src, from, to)
    \/ \E pair \in OperandPairs, op \in RelativeOps : relativeExpr(pair[1], pair[2], op)

\* calls and comparisons on a new XPath object
SpecCalls == Init /\ [][NextCalls]_vars

\* ------------------------------------------------------------------------
\* XPath: the dispatch of a function call
\* ------------------------------------------------------------------------
\* the largest number of arguments of a call
MaxArgc == 4

\* callFunction on a call of name with argc arguments, up to the call of
\* the body: lastOut tells whether this.error threw or which body was called
DispatchCall(name, argc) ==
    /\ nq = 0
    /\ nq' = 1
    /\ lastQuery' = CallNode(name, [i \in 1..argc |-> StringNode(<<>>)])
    /\ lastOut' = IF dispatched(name, argc) = "error" THEN Outcome("Error", "", 0)
                  ELSE Outcome("", "fn", name)
    /\ UNCHANGED <<dataStack, ctxStack, parserVars, lexerVars, nameVars, domVars>>

NextDispatch ==
    \E name \in DOMAIN functions \cup {"fox"}, argc \in 0..MaxArgc : DispatchCall(name, argc)

SpecDispatch == Init /\ [][NextDispatch]_vars

\* the argument counts of the core functions: f() none, f(x) one, f(x?) none
\* or one, f(x, y) two, substring(s, start, length?) two or three,
\* translate(src, from, to) three, concat(s, s, s*) two or more
InRange(name, argc) ==
    CASE name \in {"last", "position", "true", "false"} -> argc = 0
      [] name \in {"count", "boolean", "not", "lang", "sum", "floor", "ceiling", "round"} ->
             argc = 1
      [] name \in {"local-name", "namespace-uri", "name", "number", "string",
                   "string-length", "normalize-space"} -> argc \in {0, 1}
      [] name \in {"starts-with", "contains", "substring-before", "substring-after"} ->
             argc = 2
      [] name = "substring" -> argc \in {2, 3}
      [] name = "translate" -> argc = 3
      [] name = "concat" -> argc >= 2
      [] OTHER -> FALSE

\* C20: a call of a core function is rejected with an error, before the
\* body of the function runs, exactly when its argument count is outside
\* the range of the function; concat takes every count from 2 on.
C20_ArgumentCountChecked ==
    lastQuery.t = "CallNode" =>
        IF InRange(lastQuery.name, Len(lastQuery.args))
        THEN lastOut = Outcome("", "fn", lastQuery.name)
        ELSE lastOut = Outcome("Error", "", 0)

\* count(., .), substring("a") and concat("a") are rejected, concat of four
\* arguments and substring of two are accepted
C20_Witness ==
    /\ lastQuery.t = "CallNode"
    /\ \/ lastQuery.name = "count" /\ Len(lastQuery.args) = 2 /\ lastOut.err = "Error"
       \/ lastQuery.name = "substring" /\ Len(lastQuery.args) = 1 /\ lastOut.err = "Error"
       \/ lastQuery.name = "concat" /\ Len(lastQuery.args) = 1 /\ lastOut.err = "Error"
       \/ lastQuery.name = "concat" /\ Len(lastQuery.args) = 4 /\ lastOut.err = ""
       \/ lastQuery.name = "substring" /\ Len(lastQuery.args) = 2 /\ lastOut.err = ""

\* ------------------------------------------------------------------------
\* DOM: the calls that change the tree. A DOM object is made for a node of
\* the tree (this.root, called cur here) by every call; the functions take
\* the node table and return the table the call leaves.
\* ------------------------------------------------------------------------
\* Array.prototype.splice(index, 0, node): an index that is NaN or undefined
\* counts as 0 and one beyond the end as the end
spliceIn(items, index, node) ==
    LET at == IF index = NaN THEN 0 ELSE IF index > Len(items) THEN Len(items) ELSE index
    IN SubSeq(items, 1, at) \o <<node>> \o SubSeq(items, at + 1, Len(items))

\* Array.prototype.splice(index, 1)
spliceOut(items, index) ==
    LET at == IF index = NaN THEN 0 ELSE index
    IN IF at >= Len(items) THEN items
       ELSE SubSeq(items, 1, at) \o SubSeq(items, at + 2, Len(items))

RECURSIVE updateIndexesLoop(_, _, _)
updateIndexesLoop(tbl, items, i) ==
    IF i >= Len(items) THEN tbl
    ELSE updateIndexesLoop([tbl EXCEPT ![items[i + 1]].index = i], items, i + 1)

\* DOM.updateIndexes: `i < items.length` is false from the start when start
\* is NaN
updateIndexes(tbl, items, start) ==
    IF start = NaN THEN tbl ELSE updateIndexesLoop(tbl, items, start)

\* DOM.updateParentFields: child.parent = parent (the has... flags of the
\* parent are not part of the node table)
updateParentFields(tbl, parent, child) == [tbl EXCEPT ![child].parent = parent]

\* the insertion of insertBefore and insertAfter at index
insertAt(tbl, cur, index, node) ==
    LET parent == tbl[cur].parent
        spliced == [tbl EXCEPT ![parent].children = spliceIn(@, index, node)]
    IN IF parent = Null THEN tbl
       ELSE updateParentFields(updateIndexes(spliced, spliced[parent].children, index),
                               parent, node)

insertBefore(tbl, cur, node) == insertAt(tbl, cur, tbl[cur].index, node)
insertAfter(tbl, cur, node) == insertAt(tbl, cur, jsAdd(tbl[cur].index, 1), node)

\* this.root.children.push(node), updateIndexes from the last index,
\* updateParentFields
pushChild(tbl, parent, node) ==
    LET pushed == [tbl EXCEPT ![parent].children = Append(@, node)]
    IN updateParentFields(
           updateIndexes(pushed, pushed[parent].children, Len(pushed[parent].children) - 1),
           parent, node)

\* DOM.addAttribute: attributes.set(qname, attribute)
addAttribute(tbl, cur, node) ==
    IF tbl[cur].kind # "element" THEN tbl
    ELSE LET same == {i \in 1..Len(tbl[cur].attributes) :
                         tbl[tbl[cur].attributes[i]].name = tbl[node].name}
         IN updateParentFields(
                [tbl EXCEPT ![cur].attributes =
                    IF same = {} THEN Append(@, node)
                    ELSE [i \in 1..Len(@) |-> IF i \in same THEN node ELSE @[i]]],
                cur, node)

\* DOM.addChild; re is root.rootElement
addChild(tbl, cur, node, re) ==
    IF tbl[cur].kind \notin {"root", "element"} \/ tbl[node].kind = "root" THEN tbl
    ELSE IF tbl[node].kind = "attribute" THEN addAttribute(tbl, cur, node)
    ELSE IF tbl[cur].kind = "element" THEN pushChild(tbl, cur, node)
    ELSE IF tbl[node].kind = "element"
    THEN (IF re = Null THEN tbl ELSE pushChild(tbl, re, node))
    ELSE pushChild(tbl, cur, node)

\* DOM.dropNode, with updateParentFieldsD: child.parent = null
dropNode(tbl, node) ==
    LET parent == tbl[node].parent
        spliced == [tbl EXCEPT ![parent].children = spliceOut(@, tbl[node].index)]
    IN IF tbl[node].kind \in {"attribute", "namespace"} \/ parent = Null THEN tbl
       ELSE [updateIndexes(spliced, spliced[parent].children, tbl[node].index)
                EXCEPT ![node].parent = Null]

\* a FilterFn: the nodes of one kind, with one name when name is not ""
FilterFn(kind, name) == [kind |-> kind, name |-> name]
passes(tbl, n, test) == tbl[n].kind = test.kind /\ (test.name = "" \/ tbl[n].name = test.name)

RECURSIVE traverseAllRecursive(_, _, _)
RECURSIVE traverseChildren(_, _, _, _)
\* DOM.traverseAllRecursive: the nodes of the subtree of node that pass
\* test, in preorder
traverseAllRecursive(tbl, node, test) ==
    (IF passes(tbl, node, test) THEN <<node>> ELSE <<>>)
        \o traverseChildren(tbl, tbl[node].children, 1, test)
traverseChildren(tbl, items, i, test) ==
    IF i > Len(items) THEN <<>>
    ELSE traverseAllRecursive(tbl, items[i], test) \o traverseChildren(tbl, items, i + 1, test)

\* DOM.traverseAllLinear: node and its children
traverseAllLinearDom(tbl, node, test) ==
    (IF passes(tbl, node, test) THEN <<node>> ELSE <<>>)
        \o SelectSeq(tbl[node].children, LAMBDA c : passes(tbl, c, test))

\* DOM.traverseRecursive and DOM.traverseLinear: the first such node or null
traverseRecursive(tbl, node, test) ==
    IF traverseAllRecursive(tbl, node, test) = <<>> THEN Null
    ELSE Head(traverseAllRecursive(tbl, node, test))
traverseLinear(tbl, node, test) ==
    IF traverseAllLinearDom(tbl, node, test) = <<>> THEN Null
    ELSE Head(traverseAllLinearDom(tbl, node, test))

\* the optional parameter `recursive?: boolean`: true, false or left out
Recursive == {"true", "false", "undefined"}

\* DOM.dropChild
dropChild(tbl, cur, filter, recursive) ==
    LET child == IF recursive = "true" THEN traverseRecursive(tbl, cur, filter)
                 ELSE traverseLinear(tbl, cur, filter)
    IN IF child = Null THEN tbl ELSE dropNode(tbl, child)

RECURSIVE dropEach(_, _, _)
\* children.forEach((child) => this.dropNode(child))
dropEach(tbl, items, i) ==
    IF i > Len(items) THEN tbl ELSE dropEach(dropNode(tbl, items[i]), items, i + 1)

\* dropChildren with `recursive` read as true when it is left out
dropChildrenDefaultTrue(tbl, cur, filter, recursive) ==
    dropEach(tbl, IF recursive # "false" THEN traverseAllRecursive(tbl, cur, filter)
                  ELSE traverseAllLinearDom(tbl, cur, filter), 1)

\* DOM.dropChildren
dropChildren(tbl, cur, filter, recursive) ==
    dropEach(tbl, IF recursive = "true" THEN traverseAllRecursive(tbl, cur, filter)
                  ELSE traverseAllLinearDom(tbl, cur, filter), 1)

\* createElement, createText, createComment: a node without parent, index
\* and position
created(kind) == NewNode(kind, IF kind = "element" THEN "a" ELSE "", Null, NaN, DefaultPos)

\* DOM calls made on one tree
MaxDomCalls == 2
\* nodes of a tree that DOM calls are made on, the root not counted
MaxDomNodes == 2
CreatedKinds == {"element", "text"}
Filters == {FilterFn("element", "a"), FilterFn("text", "")}

RECURSIVE reach(_, _, _)
\* the nodes that the children lists lead to from the nodes of set
reach(tbl, set, k) ==
    IF k = 0 THEN set
    ELSE reach(tbl, set \cup UNION {Members(tbl[n].children) : n \in set}, k - 1)
Reachable(tbl, n) == reach(tbl, {n}, Len(tbl))

\* a call is made on a tree that was parsed, as long as calls are left; the
\* documents are those in which the parser gave out as many positions as
\* the tree has nodes
Callable ==
    /\ pc = "done"
    /\ pos = Len(nodes) - 1
    /\ dom.calls < MaxDomCalls
    /\ Len(nodes) - 1 <= MaxDomNodes + dom.calls

Called(last, attached) ==
    /\ dom' = [calls |-> dom.calls + 1, attached |-> dom.attached \/ attached, last |-> last]
    /\ UNCHANGED <<stack, pos, mode, pc, isRootElementClosed>>
    /\ UNCHANGED <<xpathVars, lexerVars, nameVars>>

\* the node that is inserted: one that a create... call has just made
\* (kind tells which), or a node of the table that is not the root
Arguments ==
    {[kind |-> k, node |-> Len(nodes) + 1] : k \in CreatedKinds}
        \cup {[kind |-> "", node |-> n] : n \in 2..Len(nodes)}

\* an attached node is not inserted under a node of its own subtree
Insertable(arg, at) == arg.kind = "" => at \notin Reachable(nodes, arg.node)

WithArgument(arg) == IF arg.kind # "" THEN Append(nodes, created(arg.kind)) ELSE nodes

Insert(op, cur, arg) ==
    /\ Callable
    /\ Insertable(arg, IF nodes[cur].parent = Null THEN cur ELSE nodes[cur].parent)
    /\ Called([op |-> op, cur |-> cur, arg |-> arg.node], arg.kind = "")
    /\ nodes' = IF op = "insertBefore" THEN insertBefore(WithArgument(arg), cur, arg.node)
                ELSE insertAfter(WithArgument(arg), cur, arg.node)
    /\ UNCHANGED rootElement

AddChild(cur, arg) ==
    /\ Callable
    /\ Insertable(arg, cur)
    /\ Insertable(arg, IF isRoot(cur) /\ rootElement # Null THEN rootElement ELSE cur)
    /\ Called([op |-> "addChild", cur |-> cur, arg |-> arg.node], arg.kind = "")
    /\ nodes' = addChild(WithArgument(arg), cur, arg.node, rootElement)
    /\ UNCHANGED rootElement

Drop(cur) ==
    /\ Callable
    /\ Called([op |-> "drop", cur |-> cur], FALSE)
    /\ nodes' = dropNode(nodes, cur)
    /\ UNCHANGED rootElement

DropChild(cur, filter, recursive) ==
    /\ Callable
    /\ Called([op |-> "dropChild", cur |-> cur, filter |-> filter, recursive |-> recursive],
              FALSE)
    /\ nodes' = dropChild(nodes, cur, filter, recursive)
    /\ UNCHANGED rootElement

DropChildren(cur, filter, recursive) ==
    /\ Callable
    /\ Called([op |-> "dropChildren", cur |-> cur, filter |-> filter,
               recursive |-> recursive], FALSE)
    /\ nodes' = dropChildren(nodes, cur, filter, recursive)
    /\ UNCHANGED rootElement

\* DOM.setRootElement(node) with an element of the table or a new one
SetRootElement(cur, arg) ==
    /\ Callable
    /\ arg.kind = "element" \/ (arg.kind = "" /\ isElement(arg.node))
    /\ Called([op |-> "setRootElement", cur |-> cur, arg |-> arg.node], FALSE)
    /\ nodes' = WithArgument(arg)
    /\ rootElement' = IF isRoot(cur) THEN arg.node ELSE rootElement

NextDom ==
    \/ parse
    \/ \E cur \in 1..Len(nodes), arg \in Arguments :
           \/ Insert("insertBefore", cur, arg)
           \/ Insert("insertAfter", cur, arg)
           \/ AddChild(cur, arg)
           \/ SetRootElement(cur, arg)
    \/ \E cur \in 1..Len(nodes) : Drop(cur)
    \/ \E cur \in 1..Len(nodes), filter \in Filters, recursive \in Recursive :
           \/ DropChild(cur, filter, recursive)
           \/ DropChildren(cur, filter, recursive)

\* the parser, then DOM calls on the tree it built
SpecDom == Init /\ [][NextDom]_vars

\* the nodes whose children list holds n
Owners(n) == {o \in 1..Len(nodes) : n \in Members(nodes[o].children)}

\* C21 (for a tree parsed in XML mode): after DOM calls whose insertion
\* arguments were all newly created nodes, every member c of a children
\* list stands in the list at its index and has the owner of the list as
\* its parent.
C21_ChildrenIndexedAndOwned ==
    (mode = "XML" /\ dom.calls >= 1 /\ ~dom.attached) =>
        \A owner \in 1..Len(nodes) : \A k \in 1..Len(nodes[owner].children) :
            LET c == nodes[owner].children[k]
            IN nodes[c].index = k - 1 /\ nodes[c].parent = owner

\* C22: after an insertBefore, insertAfter or addChild call on a parsed
\* tree, whether its argument is a new node or a node of the tree, every
\* node other than the root is in the children list of at most one node, and
\* that node is its parent.
C22_OneParent ==
    (dom.calls = 1 /\ dom.last.op \in {"insertBefore", "insertAfter", "addChild"}) =>
        \A n \in 2..Len(nodes) :
            /\ Cardinality(Owners(n)) <= 1
            /\ \A o \in Owners(n) : nodes[n].parent = o

\* C23: dropChildren(filter) without the recursive argument leaves the tree
\* that dropChildren(filter, true) leaves.
C23_DropChildrenRecursiveByDefault ==
    [][(dom'.calls = dom.calls + 1 /\ dom'.last.op = "dropChildren"
            /\ dom'.last.recursive = "undefined")
          => nodes' = dropChildren(nodes, dom'.last.cur, dom'.last.filter, "true")]_vars

\* C28: after a drop, dropChild or dropChildren call on a parsed tree,
\* root.rootElement is null or an element that is a child of the root and
\* has the root as its parent: a root element that was dropped is no longer
\* referenced.
C28_RootElementIsChildOfRoot ==
    (dom.calls = 1 /\ dom.last.op \in {"drop", "dropChild", "dropChildren"}) =>
        \/ rootElement = Null
        \/ /\ isElement(rootElement)
           /\ rootElement \in Members(nodes[1].children)
           /\ nodes[rootElement].parent = 1


\* ------------------------------------------------------------------------
\* XPath: the lexer of a query string
\* ------------------------------------------------------------------------
\* XLexer.peek: expr.charAt(currentIndex + n), "" outside the string
xPeek(expr, i, n) == IF i + n >= 0 /\ i + n < Len(expr) THEN expr[i + n + 1] ELSE ""
xAtEnd(expr, i) == xPeek(expr, i, 0) = ""

\* what skipWhitespace and getToken give when errorToken("Unterminated
\* comment") threw
Unterminated == -1

\* a comment loop that ends at the first ":)", whatever was opened inside
RECURSIVE xCommentLoopFlat(_, _, _)
xCommentLoopFlat(expr, i, inNested) ==
    IF xAtEnd(expr, i) THEN i
    ELSE IF xPeek(expr, i, 0) = ":" /\ xPeek(expr, i, 1) = ")" THEN i
    ELSE xCommentLoopFlat(expr, i + 1, inNested)

\* the while loop of skipComment: the index it stops at, which is that of
\* the ":)" that ends the comment, or the end of expr
RECURSIVE xCommentLoop(_, _, _)
xCommentLoop(expr, i, inNested) ==
    IF xAtEnd(expr, i) THEN i
    ELSE IF xPeek(expr, i, 0) = "(" /\ xPeek(expr, i, 1) = ":"
    THEN xCommentLoop(expr, i + 2, inNested + 1)
    ELSE IF xPeek(expr, i, 0) = ":" /\ xPeek(expr, i, 1) = ")"
    THEN IF inNested > 0 THEN xCommentLoop(expr, i + 1, inNested - 1) ELSE i
    ELSE xCommentLoop(expr, i + 1, inNested)

RECURSIVE xSkipWhitespace(_, _)
\* the end of skipComment, the loop having stopped at index end
xCommentEnd(expr, end) ==
    IF xAtEnd(expr, end) THEN Unterminated ELSE xSkipWhitespace(expr, end + 2)

\* skipComment with "(:" at index i: the index after it
xSkipComment(expr, i) ==
    IF xPeek(expr, i + 2, 0) = ":" /\ xPeek(expr, i + 2, 1) = ")" THEN i + 4
    ELSE xCommentEnd(expr, xCommentLoop(expr, IF xPeek(expr, i + 2, 0) = ":" THEN i + 3 ELSE i + 2, 0))

\* skipWhitespace goes on behind a comment that was skipped
xSkipped(expr, j) == IF j = Unterminated THEN Unterminated ELSE xSkipWhitespace(expr, j)

xSkipWhitespace(expr, i) ==
    IF xPeek(expr, i, 0) \in Whitespace THEN xSkipWhitespace(expr, i + 1)
    ELSE IF xPeek(expr, i, 0) = "(" /\ xPeek(expr, i, 1) = ":" THEN xSkipped(expr, xSkipComment(expr, i))
    ELSE i

xIsNameChar(ch) == ch \in {".", "-"} \/ isAlpha(ch) \/ isDigit(ch)

RECURSIVE xNameEnd(_, _)
xNameEnd(expr, i) == IF ~xAtEnd(expr, i) /\ xIsNameChar(xPeek(expr, i, 0)) THEN xNameEnd(expr, i + 1) ELSE i

XToken(type, value, next) == [type |-> type, value |-> value, next |-> next]

xValue(expr, from, to) == [k \in 1..(to - from) |-> expr[from + k]]

xText == <<"t", "e", "x", "t">>
xNode == <<"n", "o", "d", "e">>
xComment == <<"c", "o", "m", "m", "e", "n", "t">>
xPI == <<"p", "r", "o", "c", "e", "s", "s", "i", "n", "g", "-",
         "i", "n", "s", "t", "r", "u", "c", "t", "i", "o", "n">>

keywords ==
    <<"a", "n", "d">> :> "TokenAnd" @@ <<"o", "r">> :> "TokenOr"
    @@ <<"d", "i", "v">> :> "TokenDiv" @@ <<"m", "o", "d">> :> "TokenMod"
    @@ xText :> "TokenTextFn" @@ xNode :> "TokenNodeFn"
    @@ xPI :> "TokenPIFn" @@ xComment :> "TokenCommentFn"

xCoreFns == {xText, xComment, xPI, xNode}

\* lexIdentifier from startIndex = start, the name ending before index end; after is
\* where the skipWhitespace call of a core function name stops
xIdentifier(expr, start, end, after) ==
    IF xValue(expr, start, end) \in xCoreFns
    THEN IF after = Unterminated THEN XToken("Unterminated comment", <<>>, Unterminated)
         ELSE XToken(IF xPeek(expr, after, 0) = "(" THEN keywords[xValue(expr, start, end)] ELSE "TokenName",
                     xValue(expr, start, end), after)
    ELSE XToken("TokenName", xValue(expr, start, end), end)

xLexIdentifier(expr, start, end) ==
    xIdentifier(expr, start, end,
                IF xValue(expr, start, end) \in xCoreFns THEN xSkipWhitespace(expr, end) ELSE end)

\* the tokens of one character
xSingle ==
    "@" :> "TokenAt" @@ "," :> "TokenComma" @@ "+" :> "TokenPlus" @@ "-" :> "TokenMinus"
    @@ "*" :> "TokenStar" @@ "(" :> "TokenLBracket" @@ ")" :> "TokenRBracket"
    @@ "=" :> "TokenEq" @@ "[" :> "TokenLSqrBracket" @@ "]" :> "TokenRSqrBracket"
    @@ "|" :> "TokenPipe"

\* getToken behind skipWhitespace, which stopped at index i; number and
\* string literals and the characters . < > ! are not among XChars
xTokenAt(expr, i) ==
    IF i = Unterminated THEN XToken("Unterminated comment", <<>>, Unterminated)
    ELSE IF xAtEnd(expr, i) THEN XToken("TokenEnd", <<>>, i)
    ELSE IF isAlpha(expr[i + 1]) THEN xLexIdentifier(expr, i, xNameEnd(expr, i + 1))
    ELSE IF expr[i + 1] \in {"/", ":"}
    THEN IF xPeek(expr, i + 1, 0) = expr[i + 1]
         THEN XToken(IF expr[i + 1] = "/" THEN "TokenDFSlash" ELSE "TokenDColon", xValue(expr, i, i + 2), i + 2)
         ELSE XToken(IF expr[i + 1] = "/" THEN "TokenFSlash" ELSE "TokenColon", xValue(expr, i, i + 1), i + 1)
    ELSE IF expr[i + 1] \in DOMAIN xSingle THEN XToken(xSingle[expr[i + 1]], xValue(expr, i, i + 1), i + 1)
    ELSE XToken("Unknown token type", <<>>, Unterminated)

xGetToken(expr, currentIndex0) == xTokenAt(expr, xSkipWhitespace(expr, currentIndex0))

\* the types and values of the tokens that getToken calls give one after
\* the other, up to TokenEnd or to the error thrown
RECURSIVE xTokens(_, _)
xRest(expr, tok) ==
    <<[type |-> tok.type, value |-> tok.value]>>
        \o (IF tok.next = Unterminated \/ tok.type = "TokenEnd" THEN <<>> ELSE xTokens(expr, tok.next))

xTokens(expr, i) == xRest(expr, xGetToken(expr, i))

\* the query strings: at most MaxPieces of the pieces, one after the other
MaxPieces == 5
Pieces == {<<"(", ":">>, <<":", ")">>, <<"a">>, <<":">>, <<"/">>, <<" ">>, <<"(">>}

RECURSIVE Joined(_)
Joined(n) == IF n = 0 THEN {<<>>} ELSE {<<>>} \cup {p \o e : p \in Pieces, e \in Joined(n - 1)}

\* new XLexer(expr), and getToken() until the end
LexQuery(expr) ==
    /\ nq = 0
    /\ nq' = 1
    /\ lastQuery' = [t |-> "lex", expr |-> expr]
    /\ lastOut' = Outcome("", "tokens", xTokens(expr, 0))
    /\ UNCHANGED <<dataStack, ctxStack, parserVars, lexerVars, nameVars, domVars>>

NextXLexer == nq = 0 /\ \E expr \in Joined(MaxPieces) : LexQuery(expr)

SpecXLexer == Init /\ [][NextXLexer]_vars

\* the comment depth at the end of expr, read from index i at depth d: "(:"
\* opens a comment, ":)" inside a comment closes the innermost open one
RECURSIVE Depth(_, _, _)
Depth(expr, i, d) ==
    IF i > Len(expr) THEN d
    ELSE IF i < Len(expr) /\ expr[i] = "(" /\ expr[i + 1] = ":" THEN Depth(expr, i + 2, d + 1)
    ELSE IF d > 0 /\ i < Len(expr) /\ expr[i] = ":" /\ expr[i + 1] = ")" THEN Depth(expr, i + 2, d - 1)
    ELSE Depth(expr, i + 1, d)

\* expr with every outermost comment replaced by the characters by
RECURSIVE Replaced(_, _, _, _)
Replaced(expr, i, d, by) ==
    IF i > Len(expr) THEN <<>>
    ELSE IF i < Len(expr) /\ expr[i] = "(" /\ expr[i + 1] = ":" THEN Replaced(expr, i + 2, d + 1, by)
    ELSE IF d > 0 /\ i < Len(expr) /\ expr[i] = ":" /\ expr[i + 1] = ")"
    THEN (IF d = 1 THEN by ELSE <<>>) \o Replaced(expr, i + 2, d - 1, by)
    ELSE (IF d = 0 THEN <<expr[i]>> ELSE <<>>) \o Replaced(expr, i + 1, d, by)

IsLexed == nq = 1 /\ lastQuery.t = "lex"

LexedAs(by) ==
    IF Depth(lastQuery.expr, 1, 0) = 0
    THEN lastOut.value = xTokens(Replaced(lastQuery.expr, 1, 0, by), 0)
    ELSE lastOut.value[Len(lastOut.value)].type = "Unterminated comment"

\* C24 as stated: a query whose comments are all closed gives the tokens of
\* the query with the comments taken out, and a query with a comment left
\* open ends in the error "Unterminated comment".
C24_CommentsRemoved == IsLexed => LexedAs(<<>>)

\* C24: a query whose comments are all closed, nested ones included, gives
\* the tokens of the query with a whitespace in the place of each comment,
\* and a query with a comment left open ends in "Unterminated comment".
C24_CommentsAreWhitespace == IsLexed => LexedAs(<<" ">>)

\* a slash and a comment with a comment inside: one slash token
C24_Witness ==
    /\ IsLexed
    /\ lastQuery.expr = <<"/", "(", ":", "(", ":", ":", ")", ":", ")">>
    /\ lastOut.value = <<[type |-> "TokenFSlash", value |-> <<"/">>],
                         [type |-> "TokenEnd", value |-> <<>>]>>

\* ------------------------------------------------------------------------
\* XPath: the first step of an absolute path
\* ------------------------------------------------------------------------
\* the node tests of /node(), /comment(), /processing-instruction(),
\* /text(), /* and /name for the names of the document
FirstStepTests ==
    {KindTest("Node"), KindTest("Comment"), KindTest("Pi"), KindTest("Text"), Wildcard}
        \cup {NameTest(nodes[n].name) : n \in {e \in 1..Len(nodes) : isElement(e)}}

\* C25: the first step of an absolute path on the child axis yields the
\* children of the root that pass the node test, in the order of the
\* children: comments and processing instructions beside the root element
\* are among them, and without a root element the result is empty and holds
\* no null.
C25_FirstStepIsChildrenOfRoot ==
    pc = "done" =>
        \A test \in FirstStepTests :
            /\ s1ChildTest(<<>>, test).err = ""
            /\ flatten(s1ChildTest(<<>>, test).arr)
                   = SelectSeq(nodes[1].children, LAMBDA n : nodeFilter(test, n))

\* ------------------------------------------------------------------------
\* The lists of the namespace resolution at the start of a start tag
\* ------------------------------------------------------------------------
\* the name of the element was read and none of its attributes yet
AtAttributeList ==
    /\ phase = "tag"
    /\ elems[thisElem].namespaces = <<>>
    /\ elems[thisElem].attributes = {}

\* C26: in XML mode, whatever the configuration, namespacedAttributes and
\* uniqueNames are empty when the parser begins to read the attributes of
\* an element: nothing of an earlier element is left in them.
C26_ListsEmptyAtAttributeList ==
    (mode = "XML" /\ AtAttributeList) => (namespacedAttributes = <<>> /\ uniqueNames = {})

\* ------------------------------------------------------------------------
\* XPath: position() in the predicate of a step
\* ------------------------------------------------------------------------
\* what the expression of a predicate gets for the relative step
\* axis::test[expr] at the context node c of the predicate
stepAt(axis, test, expr, c) ==
    topData(visit(relativePathExpr(axisStep("Nil", axis, test, <<expr>>), <<>>), 0,
                  [ds |-> <<>>, cs |-> <<[pos |-> 1, size |-> 1, node |-> c]>>, err |-> ""]))

\* the place of a node in document order
Rank(n) == CHOOSE i \in 1..Len(Preorder(1)) : Preorder(1)[i] = n

AncestorsOf(c) == {a \in DocNodes : a # c /\ c \in Subtree(a)}

\* the members of an axis at the context node c
AxisOf(axis, c) ==
    CASE axis = "ancestor" -> AncestorsOf(c)
      [] axis = "preceding" -> {n \in DocNodes : Rank(n) < Rank(c)} \ AncestorsOf(c)
      [] axis = "following" -> {n \in DocNodes : Rank(n) > Rank(c)} \ Subtree(c)
      [] axis = "descendant" -> (Subtree(c) \cap DocNodes) \ {c}
      [] axis = "child" -> Members(nodes[c].children)
      [] axis = "self" -> {c}

\* the member of a set of nodes that is first (last) in document order, as
\* a list of 0 or 1 node
FirstOf(set) == IF set = {} THEN <<>> ELSE <<CHOOSE n \in set : \A m \in set : Rank(n) <= Rank(m)>>
LastOf(set) == IF set = {} THEN <<>> ELSE <<CHOOSE n \in set : \A m \in set : Rank(n) >= Rank(m)>>

PredicateAxes == {"ancestor", "preceding", "following", "descendant", "child", "self"}
PredicateTests == {KindTest("Node"), Wildcard}

Matching(axis, test, c) == {n \in AxisOf(axis, c) : nodeFilter(test, n)}

\* C27: in the predicate of a step on a reverse axis position() counts from
\* the context node outwards, on any other axis in document order: for
\* every context node c, axis::test[1] is the matching node of the axis
\* nearest to c (the last in document order on a reverse axis, the first on
\* a forward axis) and axis::test[last()] the farthest.
C27_PositionFollowsAxis ==
    pc = "done" =>
        \A c \in DocNodes : \A axis \in PredicateAxes : \A test \in PredicateTests :
            /\ stepAt(axis, test, NumberNode(1), c).value
                   = IF getOrder(axis) = "Reverse" THEN LastOf(Matching(axis, test, c))
                     ELSE FirstOf(Matching(axis, test, c))
            /\ stepAt(axis, test, CallNode("last", <<>>), c).value
                   = IF getOrder(axis) = "Reverse" THEN FirstOf(Matching(axis, test, c))
                     ELSE LastOf(Matching(axis, test, c))

\* the same with the members the axis search of the code finds, on XML
\* documents
FoundBy(axis, test, c) == ArrayMembers(s0Step(axis, c, test))

PositionFollowsAxisAmongFound ==
    (pc = "done" /\ mode = "XML") =>
        \A c \in DocNodes : \A axis \in PredicateAxes : \A test \in PredicateTests :
            /\ stepAt(axis, test, NumberNode(1), c).value
                   = IF getOrder(axis) = "Reverse" THEN LastOf(FoundBy(axis, test, c))
                     ELSE FirstOf(FoundBy(axis, test, c))
            /\ stepAt(axis, test, CallNode("last", <<>>), c).value
                   = IF getOrder(axis) = "Reverse" THEN FirstOf(FoundBy(axis, test, c))
                     ELSE LastOf(FoundBy(axis, test, c))

\* ------------------------------------------------------------------------
\* XPath: path(element, allowCopy = true)
\* ------------------------------------------------------------------------
\* documents whose elements are given to path()
MaxCopyNodes == 3

\* a reference to a node of the table, after the root of the document has
\* moved from the first place to the place last + 1
moved(ref, last) == IF ref = 1 THEN last + 1 ELSE ref

\* ElementNode.clone, and the two assignments of construct to the clone:
\* the children and the attributes are those of the element itself
clone(e) == [nodes[e] EXCEPT !.parent = 1]

\* XPath.construct(e, true) on an element e of the parsed document. The
\* steps of a query start at this.root, which the model keeps in the first
\* place of the table: the synthetic root takes that place, the root of the
\* document moves behind the last node, and the clone comes after it.
construct(e) ==
    /\ pc = "done"
    /\ Len(nodes) - 1 <= MaxCopyNodes
    /\ isElement(e)
    /\ nodes' = [k \in 1..(Len(nodes) + 2) |->
                    IF k = 1 THEN [NewNode("root", "", Null, NaN, DefaultPos)
                                      EXCEPT !.children = <<Len(nodes) + 2>>]
                    ELSE IF k = Len(nodes) + 1 THEN nodes[1]
                    ELSE IF k = Len(nodes) + 2 THEN clone(e)
                    ELSE [nodes[k] EXCEPT !.parent = moved(@, Len(nodes))]]
    /\ rootElement' = Len(nodes) + 2
    /\ stack' = [i \in 1..Len(stack) |-> moved(stack[i], Len(nodes))]
    /\ pc' = "path"
    /\ UNCHANGED <<pos, mode, isRootElementClosed, xpathVars, domVars, lexerVars, nameVars>>

\* /*/*/ancestor::node(), /*/ancestor::node(), //node(), //*/ancestor::*
CopyQueries ==
    {relativePathExpr(axisStep("Single", "child", Wildcard, <<>>),
                      <<axisStep("Single", "child", Wildcard, <<>>),
                        axisStep("Single", "ancestor", KindTest("Node"), <<>>)>>),
     relativePathExpr(axisStep("Single", "child", Wildcard, <<>>),
                      <<axisStep("Single", "ancestor", KindTest("Node"), <<>>)>>),
     AnyLevel(KindTest("Node"), <<>>),
     relativePathExpr(axisStep("Double", "child", Wildcard, <<>>),
                      <<axisStep("Single", "ancestor", Wildcard, <<>>)>>)}

\* a query on the XPath object that construct returned
queryCopy(q) ==
    /\ pc = "path"
    /\ nq = 0
    /\ Returned(query(q, dataStack, ctxStack))
    /\ lastQuery' = q
    /\ nq' = 1
    /\ UNCHANGED <<parserVars, lexerVars, nameVars, domVars>>

NextCopy ==
    \/ parse
    \/ \E e \in 2..(MaxCopyNodes + 1) : e <= Len(nodes) /\ construct(e)
    \/ \E q \in CopyQueries : queryCopy(q)

SpecCopy == Init /\ [][NextCopy]_vars

\* after construct: the clone, the root of the document, and the element
\* that was cloned
TheClone == Len(nodes)
DocumentRoot == Len(nodes) - 1
Original ==
    CHOOSE e \in 2..(Len(nodes) - 2) : isElement(e) /\ nodes[e].pos = nodes[TheClone].pos

RECURSIVE Chain(_)
\* a node and the nodes above it
Chain(n) == IF n = Null THEN {} ELSE {n} \cup Chain(nodes[n].parent)

\* the element that was cloned, the nodes above it up to the root of the
\* document, and its siblings
OriginalNodes ==
    Chain(Original) \cup {DocumentRoot} \cup Members(nodes[nodes[Original].parent].children)

\* C29: a query on path(element, true) returns none of the element itself,
\* the nodes above it, its siblings and the root of its document.
C29_QueryStaysInTheCopy ==
    (pc = "path" /\ nq = 1 /\ lastOut.err = "" /\ lastOut.cType = "Nodeset") =>
        Members(lastOut.value) \cap OriginalNodes = {}

\* ------------------------------------------------------------------------
\* Namespace declarations with an empty value
\* ------------------------------------------------------------------------
\* xmlns="", xmlns=" ", xmlns="u", xmlns:p="", xmlns:p="u" and p:a="1"
NamespaceAttributes ==
    {<< XmlnsPrefix, <<>>, <<>> >>, << XmlnsPrefix, <<>>, <<" ">> >>,
     << XmlnsPrefix, <<>>, <<"u">> >>, << XmlnsPrefix, <<"p">>, <<>> >>,
     << XmlnsPrefix, <<"p">>, <<"u">> >>, << <<"p">>, <<"a">>, <<"1">> >>}

NamespaceElementNames == {<< <<"a">>, <<>> >>, << <<"p">>, <<"a">> >>}

NextNamespaces ==
    \/ XmlParser(DefaultConfig)
    \/ \E n \in NamespaceElementNames : (mode = "XML" \/ n[2] = <<>>) /\ parseElement(n[1], n[2])
    \/ \E a \in NamespaceAttributes : (mode = "XML" \/ a[2] = <<>>) /\ parseAttribute(a[1], a[2], a[3])
    \/ \E b \in BOOLEAN : handleContent(b, resolveNamespaces)
    \/ \E n \in NamespaceElementNames : (mode = "XML" \/ n[2] = <<>>) /\ closingTag(n[1], n[2])
    \/ parseDocument

\* a parser with the default configuration on a document with namespace
\* declarations
SpecNamespaces == Init /\ [][NextNamespaces]_vars

\* the declarations whose value is empty once trimmed
EmptyDeclarations ==
    {a \in NamespaceAttributes : a[1] = XmlnsPrefix /\ trim(a[3]) = <<>>}

\* C30: in XML mode the first namespace declaration of a start tag, when
\* its value is empty, ends the parse in an error if and only if it
\* declares a prefix: xmlns="" is taken, xmlns:p="" is not.
C30_EmptyValueRejectedIffPrefixed ==
    [][\A a \in EmptyDeclarations :
           (/\ mode = "XML"
            /\ phase = "tag"
            /\ elems[thisElem].namespaces = <<>>
            /\ parseAttribute(a[1], a[2], a[3]))
           => ((phase' = "error") <=> (a[2] # <<>>))]_vars

============================================================================
